---- MODULE Spec2Model ----
(***************************************************************************)
(* Model of the proxy benchmark pipeline (src/proxy_benchmark.py): the     *)
(* cross-protocol deduplication, the two gated probe stages, the rolling   *)
(* history and the selection of the qualifying list; of the read loop of   *)
(* one performance probe; and of the database of the checkproxy_fixed      *)
(* variant (src/checkproxy_fixed.py).                                      *)
(*                                                                         *)
(* Units.  Scores and speeds are fixed-point numbers in thousandths        *)
(* (0.5 is 500); latencies are milliseconds; byte counts are thousandths   *)
(* of a MiB.  A mean is kept as the pair <<sum, count>> and compared by    *)
(* cross-multiplication, so no ordering decision depends on a rounding of  *)
(* the model's own.                                                        *)
(***************************************************************************)
EXTENDS Integers, Sequences, FiniteSets, TLC

VARIABLES
    pc,               \* position of main() ("exit": no run in progress)
    run,              \* number of pipeline runs started so far
    files,            \* contents of http.txt / socks5.txt / socks4.txt
    lists,            \* main's http_list / socks5_list / socks4_list
    remaining,        \* remove_duplicates: addresses of all_ips not yet iterated
    final,            \* remove_duplicates: final_http / final_socks5 / final_socks4
    si,               \* index in Protocols of the per-protocol call in progress
    started,          \* the per-protocol call has created its tasks
    tasks,            \* per address: position of its probe coroutine
    pre_screen_sem,   \* value of the prescreen semaphore
    sem,              \* value of the performance semaphore
    stage_out,        \* responsive_proxies / results of the call in progress
    to_test,          \* http/socks5/socks4_proxies_to_test
    all_results,      \* all_results of main
    good,             \* global list good
    bad,              \* global list bad
    history,          \* the mapping returned by load_history, then merged
    history_file,     \* Output/proxy_history.csv
    sorted_rows,      \* sorted_rows of main
    csv_file,         \* Output/proxy_benchmark_results.csv
    final_proxies,    \* final_proxies of save_mb_proxies in the current run
    mb_proxies_count, \* value returned by save_mb_proxies
    mb_file,          \* Output/MBProxies.txt
    appended,         \* history variable: every entry ever appended, per address
    ended,            \* per address: how its request of the current stage ended
    probes,           \* per address: requests issued in this run, per stage
    read_total,       \* try_proxy: total, the bytes counted by the read loop
    content,          \* try_proxy: bytes the response has still to deliver
    reading,          \* try_proxy: position of the read loop
    db_history,       \* checkproxy_fixed: ProxyDatabase.history
    proxies,          \* checkproxy_fixed: the shuffled list of run_fixed_checker
    checks,           \* checkproxy_fixed: position of every bound_check task
    semaphore,        \* checkproxy_fixed: value of the semaphore
    working,          \* checkproxy_fixed: results of run_fixed_checker
    calls             \* checkproxy_fixed: update_proxy calls made, in order

vars == <<pc, run, files, lists, remaining, final, si, started, tasks,
          pre_screen_sem, sem, stage_out, to_test, all_results, good, bad,
          history, history_file, sorted_rows, csv_file, final_proxies,
          mb_proxies_count, mb_file, appended, ended, probes,
          read_total, content, reading,
          db_history, proxies, checks, semaphore, working, calls>>

dedupVars == <<remaining, final>>

gateVars == <<pre_screen_sem, sem>>

callVars == <<si, started, tasks, stage_out, ended, probes>>

resultVars == <<to_test, all_results, good, bad>>

historyVars == <<history, history_file, appended>>

outputVars == <<sorted_rows, csv_file, final_proxies, mb_proxies_count, mb_file>>

\* The pipeline as a whole (src/proxy_benchmark.py without the read loop).
pipelineVars ==
    <<pc, run, files, lists, dedupVars, gateVars, callVars, resultVars,
      historyVars, outputVars>>

readVars == <<read_total, content, reading>>

dbVars == <<db_history, proxies, checks, semaphore, working, calls>>

(***************************************************************************)
(* Bounds and constants                                                    *)
(***************************************************************************)
\* Longest input list of the deduplication-only specification.
MaxListLen == 2

\* Pipeline runs of the specification Spec (two addresses, several runs).
MaxRuns == 2

\* PRE_SCREEN_CONCURRENT (500 in the program), scaled so that the gate fills.
PRE_SCREEN_CONCURRENT == 2

\* CONCURRENT_LIMIT (500 in the program), scaled so that the gate fills.
CONCURRENT_LIMIT == 2

\* MIN_PROXIES_COUNT (75 in the program), scaled so that the number of
\* qualifying proxies can be below, equal to and above it.
MIN_PROXIES_COUNT == 2

\* HISTORY_MAX_RUNS
HISTORY_MAX_RUNS == 10

\* MIN_SCORE_THRESHOLD = 0.5, in thousandths
MIN_SCORE_THRESHOLD == 500

\* MIN_RESPONSE_RATE = 50.0 (percent)
MIN_RESPONSE_RATE == 50

Addr == {"A", "B", "C"}

Protocols == <<"http", "socks5", "socks4">>

SchemeSet == {"http", "socks5", "socks4"}

\* Python's None for an absent latency or speed (every measured one is >= 0).
None == 0 - 1

EmptyLists == [http |-> <<>>, socks5 |-> <<>>, socks4 |-> <<>>]

EmptyHistory == [a \in Addr |-> <<>>]

\* A file that does not exist.
NoHistoryFile ==
    [exists |-> FALSE, rows |-> EmptyHistory, stamps |-> EmptyHistory]

NoCsvFile == [exists |-> FALSE, rows |-> <<>>]

NoMbFile == [exists |-> FALSE, lines |-> <<>>]

\* No response body is being read.
ReadIdle ==
    /\ read_total = 0
    /\ content = 0
    /\ reading = "none"

\* float('inf'), the worst speed of a proxy that never worked.
Infinity == 0 - 3

\* An address that is not a key of ProxyDatabase.history.
NoRecord ==
    [present |-> FALSE, protocol |-> "", first_seen |-> 0, last_seen |-> 0,
     total_tests |-> 0, successful_tests |-> 0, avg_speed_mbps |-> 0,
     avg_response_time |-> 0, best_speed_mbps |-> 0,
     worst_speed_mbps |-> Infinity, long_term_score |-> 0,
     reliability_rate |-> <<0, 1>>]

\* checkproxy_fixed is not running.
DbIdle ==
    /\ db_history = [a \in Addr |-> NoRecord]
    /\ proxies = <<>>
    /\ checks = <<>>
    /\ semaphore = 0
    /\ working = <<>>
    /\ calls = <<>>

(***************************************************************************)
(* Helpers on sequences                                                    *)
(***************************************************************************)
ToSet(s) == {s[i] : i \in DOMAIN s}

NoRepeats(s) == \A i, j \in DOMAIN s : s[i] = s[j] => i = j

SeqsUpTo(S, n) == UNION {[1..k -> S] : k \in 0..n}

(***************************************************************************)
(* remove_duplicates                                                       *)
(***************************************************************************)
\* all_ips = http_ips | socks5_ips | socks4_ips
AllIps(l) == ToSet(l.http) \cup ToSet(l.socks5) \cup ToSet(l.socks4)

\* The list `sources` built for one ip, in the order the code appends.
Sources(ip, l) ==
    SelectSeq(Protocols, LAMBDA p : ip \in ToSet(l[p]))

\* A wrong priority: HTTP before SOCKS5.
TargetsHttpFirst(sources) ==
    IF Len(sources) > 1
    THEN IF "http" \in ToSet(sources) THEN {"http"}
         ELSE IF "socks5" \in ToSet(sources) THEN {"socks5"}
         ELSE {"socks4"}
    ELSE {sources[1]}

\* A wrong resolution: the address is kept under every protocol that lists it.
TargetsEverySource(sources) == ToSet(sources)

\* The final_* lists the loop body appends ip to, given its sources.
Targets(sources) ==
    IF Len(sources) > 1
    THEN IF "socks5" \in ToSet(sources) THEN {"socks5"}
         ELSE IF "http" \in ToSet(sources) THEN {"http"}
         ELSE {"socks4"}
    ELSE {sources[1]}

\* Entry of remove_duplicates: the sets are built, the final lists are empty.
DedupBegin ==
    /\ pc = "dedup"
    /\ remaining' = AllIps(lists)
    /\ final' = EmptyLists
    /\ pc' = "dedup_loop"
    /\ UNCHANGED <<readVars, dbVars>>
    /\ UNCHANGED <<run, files, lists, gateVars, callVars, resultVars,
                   historyVars, outputVars>>

\* An iteration whose choice depends on what was iterated before: a duplicate
\* listed under http goes to http once final_socks5 holds an address.
DedupStepFirstCome(ip) ==
    /\ pc = "dedup_loop"
    /\ ip \in remaining
    /\ remaining' = remaining \ {ip}
    /\ LET sources == Sources(ip, lists)
           targets == IF /\ Len(sources) > 1
                         /\ "http" \in ToSet(sources)
                         /\ final.socks5 # <<>>
                      THEN {"http"} ELSE Targets(sources)
       IN  final' = [p \in SchemeSet |->
                        IF p \in targets THEN Append(final[p], ip) ELSE final[p]]
    /\ UNCHANGED <<readVars, dbVars>>
    /\ UNCHANGED <<pc, run, files, lists, gateVars, callVars, resultVars,
                   historyVars, outputVars>>

\* An iteration that resolves a duplicate in place: the address is also taken
\* out of the input lists it loses.
DedupStepInPlace(ip) ==
    /\ pc = "dedup_loop"
    /\ ip \in remaining
    /\ remaining' = remaining \ {ip}
    /\ final' = [p \in SchemeSet |->
                    IF p \in Targets(Sources(ip, lists))
                    THEN Append(final[p], ip) ELSE final[p]]
    /\ lists' = [p \in SchemeSet |->
                    IF p \in Targets(Sources(ip, lists)) THEN lists[p]
                    ELSE SelectSeq(lists[p], LAMBDA x : x # ip)]
    /\ UNCHANGED <<readVars, dbVars>>
    /\ UNCHANGED <<pc, run, files, gateVars, callVars, resultVars,
                   historyVars, outputVars>>

\* One iteration of `for ip in all_ips`: a set is iterated in no fixed order.
DedupStep(ip) ==
    /\ pc = "dedup_loop"
    /\ ip \in remaining
    /\ remaining' = remaining \ {ip}
    /\ final' = [p \in SchemeSet |->
                    IF p \in Targets(Sources(ip, lists))
                    THEN Append(final[p], ip) ELSE final[p]]
    /\ UNCHANGED <<readVars, dbVars>>
    /\ UNCHANGED <<pc, run, files, lists, gateVars, callVars, resultVars,
                   historyVars, outputVars>>

\* Return of remove_duplicates: main rebinds its three lists to the results.
DedupReturn ==
    /\ pc = "dedup_loop"
    /\ remaining = {}
    /\ lists' = final
    /\ pc' = "prescreen"
    /\ si' = 1
    /\ started' = FALSE
    /\ UNCHANGED <<readVars, dbVars>>
    /\ UNCHANGED <<run, files, dedupVars, tasks, stage_out, ended, probes,
                   gateVars, resultVars, historyVars, outputVars>>

(***************************************************************************)
(* main: start of a run                                                    *)
(***************************************************************************)
IdleTasks == [a \in Addr |-> "idle"]

\* No request of the current stage has ended yet.
NoneEnded == [a \in Addr |-> "none"]

\* No request has been issued in this run.
NoProbes == [a \in Addr |-> [pre |-> 0, perf |-> 0]]

\* A start that does not look at the number of proxies loaded.
StartRunUnchecked(fs, limit) ==
    /\ pc = "exit"
    /\ run < limit
    /\ run' = run + 1
    /\ files' = fs
    /\ lists' = fs
    /\ remaining' = {}
    /\ final' = EmptyLists
    /\ si' = 1
    /\ started' = FALSE
    /\ tasks' = IdleTasks
    /\ stage_out' = <<>>
    /\ ended' = NoneEnded
    /\ probes' = NoProbes
    /\ pre_screen_sem' = PRE_SCREEN_CONCURRENT
    /\ sem' = CONCURRENT_LIMIT
    /\ to_test' = EmptyLists
    /\ all_results' = <<>>
    /\ good' = <<>>
    /\ bad' = <<>>
    /\ history' = EmptyHistory
    /\ sorted_rows' = <<>>
    /\ final_proxies' = <<>>
    /\ mb_proxies_count' = 0
    /\ pc' = "dedup"
    /\ UNCHANGED <<readVars, dbVars>>
    /\ UNCHANGED <<history_file, appended, csv_file, mb_file>>

\* Lines 262-277: a new process loads the three files; with no proxy at all
\* main returns.  fs is what the scraper left in the three files.
StartRun(fs, limit) ==
    /\ pc = "exit"
    /\ run < limit
    /\ run' = run + 1
    /\ files' = fs
    /\ lists' = fs
    /\ remaining' = {}
    /\ final' = EmptyLists
    /\ si' = 1
    /\ started' = FALSE
    /\ tasks' = IdleTasks
    /\ stage_out' = <<>>
    /\ ended' = NoneEnded
    /\ probes' = NoProbes
    /\ pre_screen_sem' = PRE_SCREEN_CONCURRENT
    /\ sem' = CONCURRENT_LIMIT
    /\ to_test' = EmptyLists
    /\ all_results' = <<>>
    /\ good' = <<>>
    /\ bad' = <<>>
    /\ history' = EmptyHistory
    /\ sorted_rows' = <<>>
    /\ final_proxies' = <<>>
    /\ mb_proxies_count' = 0
    /\ pc' = IF Len(fs.http) + Len(fs.socks5) + Len(fs.socks4) = 0
             THEN "exit" ELSE "dedup"
    /\ UNCHANGED <<readVars, dbVars>>
    /\ UNCHANGED <<history_file, appended, csv_file, mb_file>>

(***************************************************************************)
(* The admission gates (asyncio.Semaphore used as `async with`)            *)
(***************************************************************************)
\* A gate that admits every probe at once.
CanAcquireAlways(value) == TRUE

\* `async with sem` proceeds only while the semaphore's value is positive.
CanAcquire(value) == value > 0

\* A gate whose slots are never given back.
SemAfterExitKept(value, outcome) == value

\* A gate whose slot is given back only when the probe succeeded.
SemAfterExitLeaky(value, outcome) ==
    IF outcome \in {"200", "ok"} THEN value + 1 ELSE value

\* Leaving the `async with` block releases the slot, whatever the exit path.
SemAfterExit(value, outcome) == value + 1

Scheme == Protocols[si]

AllJoined == \A a \in Addr : tasks[a] \in {"idle", "done"}

(***************************************************************************)
(* Prescreen Stage: pre_screen_proxies and pre_screen_proxy                *)
(***************************************************************************)
PreScreenOutcomes == {"200", "status", "error", "timeout"}

\* Lines 72-74: one task per proxy of the list.
PreScreenSpawn ==
    /\ pc = "prescreen"
    /\ ~started
    /\ started' = TRUE
    /\ tasks' = [a \in Addr |->
                    IF a \in ToSet(lists[Scheme]) THEN "waiting" ELSE "idle"]
    /\ stage_out' = <<>>
    /\ UNCHANGED <<readVars, dbVars>>
    /\ UNCHANGED <<pc, run, files, lists, dedupVars, si, ended, probes,
                   gateVars, resultVars, historyVars, outputVars>>

\* Lines 55-56: the task enters `async with pre_screen_sem` and issues its
\* request.
PreScreenAcquire(a) ==
    /\ pc = "prescreen"
    /\ tasks[a] = "waiting"
    /\ CanAcquire(pre_screen_sem)
    /\ pre_screen_sem' = pre_screen_sem - 1
    /\ tasks' = [tasks EXCEPT ![a] = "holding"]
    /\ probes' = [probes EXCEPT ![a].pre = @ + 1]
    /\ UNCHANGED <<readVars, dbVars>>
    /\ UNCHANGED <<pc, run, files, lists, dedupVars, si, started, stage_out,
                   ended, sem, resultVars, historyVars, outputVars>>

\* A prescreen that issues its request again when it did not get status 200.
PreScreenFinishRetrying(a, outcome) ==
    /\ pc = "prescreen"
    /\ tasks[a] = "holding"
    /\ pre_screen_sem' = SemAfterExit(pre_screen_sem, outcome)
    /\ tasks' = [tasks EXCEPT ![a] = IF outcome = "200" THEN "done" ELSE "waiting"]
    /\ stage_out' = IF outcome = "200" THEN Append(stage_out, a) ELSE stage_out
    /\ ended' = [ended EXCEPT ![a] = outcome]
    /\ UNCHANGED <<readVars, dbVars>>
    /\ UNCHANGED <<pc, run, files, lists, dedupVars, si, started, probes, sem,
                   resultVars, historyVars, outputVars>>

\* A prescreen that keeps every proxy that answered, whatever the status.
PreScreenFinishAnyStatus(a, outcome) ==
    /\ pc = "prescreen"
    /\ tasks[a] = "holding"
    /\ pre_screen_sem' = SemAfterExit(pre_screen_sem, outcome)
    /\ tasks' = [tasks EXCEPT ![a] = "done"]
    /\ stage_out' = IF outcome \in {"200", "status"}
                    THEN Append(stage_out, a) ELSE stage_out
    /\ ended' = [ended EXCEPT ![a] = outcome]
    /\ UNCHANGED <<readVars, dbVars>>
    /\ UNCHANGED <<pc, run, files, lists, dedupVars, si, started, probes, sem,
                   resultVars, historyVars, outputVars>>

\* Lines 57-63 and 80-82: the request ends (status 200, another status, a
\* connection error or the timeout); the slot is released and the caller
\* keeps the proxy when it answered 200.
PreScreenFinish(a, outcome) ==
    /\ pc = "prescreen"
    /\ tasks[a] = "holding"
    /\ pre_screen_sem' = SemAfterExit(pre_screen_sem, outcome)
    /\ tasks' = [tasks EXCEPT ![a] = "done"]
    /\ stage_out' = IF outcome = "200" THEN Append(stage_out, a) ELSE stage_out
    /\ ended' = [ended EXCEPT ![a] = outcome]
    /\ UNCHANGED <<readVars, dbVars>>
    /\ UNCHANGED <<pc, run, files, lists, dedupVars, si, started, probes, sem,
                   resultVars, historyVars, outputVars>>

AllToTest(t) == t.http \o t.socks5 \o t.socks4

\* A main that goes on to the Performance Stage with no responsive proxy.
PreScreenReturnUnchecked ==
    /\ pc = "prescreen"
    /\ started
    /\ AllJoined
    /\ to_test' = [to_test EXCEPT ![Scheme] = stage_out]
    /\ started' = FALSE
    /\ tasks' = IdleTasks
    /\ stage_out' = <<>>
    /\ IF si < 3
       THEN /\ si' = si + 1
            /\ pc' = pc
            /\ ended' = ended
       ELSE /\ si' = 1
            /\ pc' = "perf"
            /\ ended' = NoneEnded
    /\ UNCHANGED <<readVars, dbVars>>
    /\ UNCHANGED <<run, files, lists, dedupVars, probes, gateVars, all_results,
                   good, bad, historyVars, outputVars>>

\* A main that starts the Performance Stage as soon as one prescreen call has
\* returned a responsive proxy.
PreScreenReturnPipelined ==
    /\ pc = "prescreen"
    /\ started
    /\ AllJoined
    /\ to_test' = [to_test EXCEPT ![Scheme] = stage_out]
    /\ started' = FALSE
    /\ tasks' = IdleTasks
    /\ stage_out' = <<>>
    /\ IF si < 3 /\ stage_out = <<>>
       THEN /\ si' = si + 1
            /\ pc' = pc
            /\ ended' = ended
       ELSE /\ si' = 1
            /\ pc' = IF AllToTest(to_test') = <<>> THEN "exit" ELSE "perf"
            /\ ended' = NoneEnded
    /\ UNCHANGED <<readVars, dbVars>>
    /\ UNCHANGED <<run, files, lists, dedupVars, probes, gateVars, all_results,
                   good, bad, historyVars, outputVars>>

\* Lines 85, 291-298: the call returns its responsive proxies; after the
\* third call main returns when no proxy is responsive.
PreScreenReturn ==
    /\ pc = "prescreen"
    /\ started
    /\ AllJoined
    /\ to_test' = [to_test EXCEPT ![Scheme] = stage_out]
    /\ started' = FALSE
    /\ tasks' = IdleTasks
    /\ stage_out' = <<>>
    /\ IF si < 3
       THEN /\ si' = si + 1
            /\ pc' = pc
            /\ ended' = ended
       ELSE /\ si' = 1
            /\ pc' = IF AllToTest(to_test') = <<>> THEN "exit" ELSE "perf"
            /\ ended' = NoneEnded
    /\ UNCHANGED <<readVars, dbVars>>
    /\ UNCHANGED <<run, files, lists, dedupVars, probes, gateVars, all_results,
                   good, bad, historyVars, outputVars>>

(***************************************************************************)
(* Performance Stage: run_tests and try_proxy                              *)
(***************************************************************************)
\* Measurements of a successful probe: <<bytes read, elapsed time>>, in
\* thousandths of a MiB and milliseconds.
PerfSamples == {<<10000, 1000>>, <<10000, 4000>>, <<10000, 5000>>}

\* The two of them the several-run specification draws from.
FewSamples == {<<10000, 1000>>, <<10000, 4000>>}

\* Measurements of the specification of the score: 5 MiB and 10 MiB in one
\* second, 10 MiB in a quarter of a second.
ScoreSamples == {<<5000, 1000>>, <<10000, 1000>>, <<10000, 250>>}

PerfFailures == {"status", "error", "timeout"}

\* The one of them the several-run specification draws from.
FewFailures == {"timeout"}

\* speed = total / elapsed / 1024 / 1024      (thousandths of MiB/s)
Speed(total, elapsed) == (total * 1000) \div elapsed

\* A score without the 0.01 added to the latency.
ScoreNoOffset(speed, latency) == (speed * 1000) \div latency

\* score = speed / (latency + 0.01)
Score(speed, latency) == (speed * 1000) \div (latency + 10)

\* Lines 101-106: the tuple returned by a successful probe.
GoodResult(proxy, scheme, total, elapsed) ==
    [proxy |-> proxy, scheme |-> scheme, lat |-> elapsed,
     spd |-> Speed(total, elapsed),
     sc |-> Score(Speed(total, elapsed), elapsed), success |-> TRUE]

\* A failure that reports a latency and a throughput of zero.
BadResultMeasured(proxy, scheme) ==
    [proxy |-> proxy, scheme |-> scheme, lat |-> 0, spd |-> 0,
     sc |-> 0, success |-> FALSE]

\* Line 109: the tuple returned when the probe raised.
BadResult(proxy, scheme) ==
    [proxy |-> proxy, scheme |-> scheme, lat |-> None, spd |-> None,
     sc |-> 0, success |-> FALSE]

\* After the call for Protocols[si]: the next protocol, or load_history.
PerfAdvance ==
    IF si < 3
    THEN /\ si' = si + 1
         /\ pc' = pc
         /\ ended' = ended
    ELSE /\ si' = 1
         /\ pc' = "load_history"
         /\ ended' = NoneEnded

\* Lines 305, 307, 309: no call for a protocol without responsive proxy.
PerfSkip ==
    /\ pc = "perf"
    /\ ~started
    /\ to_test[Scheme] = <<>>
    /\ PerfAdvance
    /\ UNCHANGED <<readVars, dbVars>>
    /\ UNCHANGED <<run, files, lists, dedupVars, started, tasks, stage_out,
                   probes, gateVars, resultVars, historyVars, outputVars>>

\* A run_tests call given the whole deduplicated list of its protocol.
PerfSpawnUnfiltered ==
    /\ pc = "perf"
    /\ ~started
    /\ to_test[Scheme] # <<>>
    /\ started' = TRUE
    /\ tasks' = [a \in Addr |->
                    IF a \in ToSet(lists[Scheme]) THEN "waiting" ELSE "idle"]
    /\ stage_out' = <<>>
    /\ UNCHANGED <<readVars, dbVars>>
    /\ UNCHANGED <<pc, run, files, lists, dedupVars, si, ended, probes,
                   gateVars, resultVars, historyVars, outputVars>>

\* Lines 114-116: one task per responsive proxy.
PerfSpawn ==
    /\ pc = "perf"
    /\ ~started
    /\ to_test[Scheme] # <<>>
    /\ started' = TRUE
    /\ tasks' = [a \in Addr |->
                    IF a \in ToSet(to_test[Scheme]) THEN "waiting" ELSE "idle"]
    /\ stage_out' = <<>>
    /\ UNCHANGED <<readVars, dbVars>>
    /\ UNCHANGED <<pc, run, files, lists, dedupVars, si, ended, probes,
                   gateVars, resultVars, historyVars, outputVars>>

\* Lines 91-93: the task enters `async with sem` and issues its request.
PerfAcquire(a) ==
    /\ pc = "perf"
    /\ tasks[a] = "waiting"
    /\ CanAcquire(sem)
    /\ sem' = sem - 1
    /\ tasks' = [tasks EXCEPT ![a] = "holding"]
    /\ probes' = [probes EXCEPT ![a].perf = @ + 1]
    /\ UNCHANGED <<readVars, dbVars>>
    /\ UNCHANGED <<pc, run, files, lists, dedupVars, si, started, stage_out,
                   ended, pre_screen_sem, resultVars, historyVars, outputVars>>

\* A probe that appends its outcome to the history as soon as it succeeds.
PerfSucceedMerging(a, total, elapsed) ==
    /\ pc = "perf"
    /\ tasks[a] = "holding"
    /\ sem' = SemAfterExit(sem, "ok")
    /\ tasks' = [tasks EXCEPT ![a] = "done"]
    /\ good' = Append(good, a)
    /\ stage_out' = Append(stage_out, GoodResult(a, Scheme, total, elapsed))
    /\ ended' = [ended EXCEPT ![a] = "ok"]
    /\ history' = [history EXCEPT ![a] =
                      Append(@, <<GoodResult(a, Scheme, total, elapsed).sc, TRUE>>)]
    /\ UNCHANGED <<readVars, dbVars>>
    /\ UNCHANGED <<pc, run, files, lists, dedupVars, si, started, probes,
                   pre_screen_sem, to_test, all_results, bad, history_file,
                   appended, outputVars>>

\* Lines 93-106, 121-122: status 200 or 206 and the body read without error.
PerfSucceed(a, total, elapsed) ==
    /\ pc = "perf"
    /\ tasks[a] = "holding"
    /\ sem' = SemAfterExit(sem, "ok")
    /\ tasks' = [tasks EXCEPT ![a] = "done"]
    /\ good' = Append(good, a)
    /\ stage_out' = Append(stage_out, GoodResult(a, Scheme, total, elapsed))
    /\ ended' = [ended EXCEPT ![a] = "ok"]
    /\ UNCHANGED <<readVars, dbVars>>
    /\ UNCHANGED <<pc, run, files, lists, dedupVars, si, started, probes,
                   pre_screen_sem, to_test, all_results, bad, historyVars,
                   outputVars>>

\* A probe whose failure produces no result at all.
PerfFailDropped(a, reason) ==
    /\ pc = "perf"
    /\ tasks[a] = "holding"
    /\ sem' = SemAfterExit(sem, reason)
    /\ tasks' = [tasks EXCEPT ![a] = "done"]
    /\ bad' = Append(bad, a)
    /\ ended' = [ended EXCEPT ![a] = reason]
    /\ UNCHANGED <<readVars, dbVars>>
    /\ UNCHANGED <<pc, run, files, lists, dedupVars, si, started, stage_out,
                   probes, pre_screen_sem, to_test, all_results, good,
                   historyVars, outputVars>>

\* A probe whose exception escapes its task and cancels the tasks still
\* pending in the same call.
PerfFailCancelling(a, reason) ==
    /\ pc = "perf"
    /\ tasks[a] = "holding"
    /\ sem' = SemAfterExit(sem, reason)
    /\ tasks' = [b \in Addr |-> IF tasks[b] = "idle" THEN "idle" ELSE "done"]
    /\ bad' = Append(bad, a)
    /\ stage_out' = Append(stage_out, BadResult(a, Scheme))
    /\ ended' = [ended EXCEPT ![a] = reason]
    /\ UNCHANGED <<readVars, dbVars>>
    /\ UNCHANGED <<pc, run, files, lists, dedupVars, si, started, probes,
                   pre_screen_sem, to_test, all_results, good, historyVars,
                   outputVars>>

\* Lines 94-95, 107-109, 121-122: another status, a connection error or the
\* timeout raise inside the block; the except clause returns a failure.
PerfFail(a, reason) ==
    /\ pc = "perf"
    /\ tasks[a] = "holding"
    /\ sem' = SemAfterExit(sem, reason)
    /\ tasks' = [tasks EXCEPT ![a] = "done"]
    /\ bad' = Append(bad, a)
    /\ stage_out' = Append(stage_out, BadResult(a, Scheme))
    /\ ended' = [ended EXCEPT ![a] = reason]
    /\ UNCHANGED <<readVars, dbVars>>
    /\ UNCHANGED <<pc, run, files, lists, dedupVars, si, started, probes,
                   pre_screen_sem, to_test, all_results, good, historyVars,
                   outputVars>>

\* Lines 123, 306-310: the call returns; main extends all_results.
PerfReturn ==
    /\ pc = "perf"
    /\ started
    /\ AllJoined
    /\ all_results' = all_results \o stage_out
    /\ started' = FALSE
    /\ tasks' = IdleTasks
    /\ stage_out' = <<>>
    /\ PerfAdvance
    /\ UNCHANGED <<readVars, dbVars>>
    /\ UNCHANGED <<run, files, lists, dedupVars, probes, gateVars, to_test,
                   good, bad, historyVars, outputVars>>

(***************************************************************************)
(* History Store: load_history, the merge loop of main, save_history       *)
(***************************************************************************)
\* A deque without maxlen: nothing is ever evicted.
DequeAppendUnbounded(d, x) == Append(d, x)

\* A full deque that drops its newest entry instead of its oldest.
DequeAppendDropNewest(d, x) ==
    IF Len(d) >= HISTORY_MAX_RUNS
    THEN Append(SubSeq(d, 1, Len(d) - 1), x)
    ELSE Append(d, x)

\* deque(maxlen=HISTORY_MAX_RUNS).append(x): a full deque drops its oldest.
DequeAppend(d, x) ==
    IF Len(d) >= HISTORY_MAX_RUNS
    THEN Append(Tail(d), x)
    ELSE Append(d, x)

\* f"{score:.2f}": to the nearest hundredth (ties to even), in thousandths.
Round2(s) ==
    LET q == s \div 10
        r == s % 10
    IN  IF r < 5 THEN 10 * q
        ELSE IF r > 5 THEN 10 * (q + 1)
        ELSE IF q % 2 = 0 THEN 10 * q ELSE 10 * (q + 1)

\* A row whose score is cut after two decimals instead of rounded.
FormatRowTruncating(entry) ==
    <<10 * (entry[1] \div 10), IF entry[2] THEN "1" ELSE "0">>

\* The Score and Success columns save_history writes for one entry.
FormatRow(entry) == <<Round2(entry[1]), IF entry[2] THEN "1" ELSE "0">>

\* The entry load_history builds from one row.
ParseRow(row) == <<row[1], row[2] = "1">>

\* A Score field whose text is not a number.
NotANumber == 0 - 2

\* float(row['Score']) returns for every row of the file.
Parsable(file) ==
    \A a \in Addr : \A i \in DOMAIN file.rows[a] : file.rows[a][i][1] # NotANumber

\* A load that keeps the first rows of a proxy and drops the later ones.
DequeFillFirst(rows) ==
    [i \in 1..(IF Len(rows) <= HISTORY_MAX_RUNS THEN Len(rows)
               ELSE HISTORY_MAX_RUNS) |-> ParseRow(rows[i])]

\* The rows of one proxy appended one by one to its deque.
DequeFill(rows) ==
    LET f[i \in 0..Len(rows)] ==
            IF i = 0 THEN <<>> ELSE DequeAppend(f[i - 1], ParseRow(rows[i]))
    IN  f[Len(rows)]

\* load_history: the file is kept per proxy, rows in file order.
LoadedHistory(file) ==
    IF ~file.exists THEN EmptyHistory
    ELSE [a \in Addr |-> DequeFill(file.rows[a])]

\* A merge that records successes only.
MergedHistorySuccessOnly(h, results) ==
    LET f[i \in 0..Len(results)] ==
            IF i = 0 THEN h
            ELSE IF results[i].success
                 THEN [f[i - 1] EXCEPT ![results[i].proxy] =
                         DequeAppend(@, <<results[i].sc, results[i].success>>)]
                 ELSE f[i - 1]
    IN  f[Len(results)]

\* A merge that also records a failure for every proxy that did not pass the
\* Prescreen Stage.
MergedHistoryWithDead(h, results) ==
    LET f[i \in 0..Len(results)] ==
            IF i = 0 THEN h
            ELSE [f[i - 1] EXCEPT ![results[i].proxy] =
                    DequeAppend(@, <<results[i].sc, results[i].success>>)]
    IN  [a \in Addr |->
            IF a \in AllIps(lists) \ ToSet(AllToTest(to_test))
            THEN DequeAppend(f[Len(results)][a], <<0, FALSE>>)
            ELSE f[Len(results)][a]]

\* Lines 313-314: history[proxy].append((sc, success)) for every result.
MergedHistory(h, results) ==
    LET f[i \in 0..Len(results)] ==
            IF i = 0 THEN h
            ELSE [f[i - 1] EXCEPT ![results[i].proxy] =
                    DequeAppend(@, <<results[i].sc, results[i].success>>)]
    IN  f[Len(results)]

\* Every entry appended by the merge loop, with no eviction.
AppendedLog(log, results) ==
    LET f[i \in 0..Len(results)] ==
            IF i = 0 THEN log
            ELSE [f[i - 1] EXCEPT ![results[i].proxy] =
                    Append(@, <<results[i].sc, results[i].success>>)]
    IN  f[Len(results)]

\* A save that writes the rows of the proxies tested in this run only.
SavedHistoryTestedOnly(h) ==
    [a \in Addr |->
        IF \E i \in DOMAIN all_results : all_results[i].proxy = a
        THEN [i \in DOMAIN h[a] |-> FormatRow(h[a][i])]
        ELSE <<>>]

\* save_history: one row per entry of every deque.
SavedHistory(h) ==
    [a \in Addr |-> [i \in DOMAIN h[a] |-> FormatRow(h[a][i])]]

\* Lines 195-205 and 312: load_history has no handler, so the ValueError of
\* float() leaves main and ends the run.
LoadHistory ==
    /\ pc = "load_history"
    /\ IF history_file.exists /\ ~Parsable(history_file)
       THEN /\ history' = history
            /\ pc' = "failed"
       ELSE /\ history' = LoadedHistory(history_file)
            /\ pc' = "merge"
    /\ UNCHANGED <<readVars, dbVars>>
    /\ UNCHANGED <<run, files, lists, dedupVars, callVars, gateVars,
                   resultVars, history_file, appended, outputVars>>

MergeHistory ==
    /\ pc = "merge"
    /\ history' = MergedHistory(history, all_results)
    /\ appended' = AppendedLog(appended, all_results)
    /\ pc' = "save_history"
    /\ UNCHANGED <<readVars, dbVars>>
    /\ UNCHANGED <<run, files, lists, dedupVars, callVars, gateVars,
                   resultVars, history_file, outputVars>>

\* save_history: the Timestamp column, int(time()) evaluated for every row as
\* it is written; the clock of a run reads the number of the run.
SavedStamps(h, now) == [a \in Addr |-> [i \in DOMAIN h[a] |-> now]]

\* Lines 207-213 and 315, when nothing interrupts the call.
SaveHistory ==
    /\ pc = "save_history"
    /\ history_file' = [exists |-> TRUE, rows |-> SavedHistory(history),
                        stamps |-> SavedStamps(history, run)]
    /\ pc' = "rows"
    /\ UNCHANGED <<readVars, dbVars>>
    /\ UNCHANGED <<run, files, lists, dedupVars, callVars, gateVars,
                   resultVars, history, appended, outputVars>>

\* The same call, write by write.  Line 208: open(HISTORY_FILE, "w") creates
\* the file or truncates it in place (the header row is not modelled).
SaveOpen ==
    /\ pc = "save_history"
    /\ history_file' = [exists |-> TRUE, rows |-> EmptyHistory,
                        stamps |-> EmptyHistory]
    /\ pc' = "save_write"
    /\ UNCHANGED <<readVars, dbVars>>
    /\ UNCHANGED <<run, files, lists, dedupVars, callVars, gateVars,
                   resultVars, history, appended, outputVars>>

\* Lines 211-213: the next row of proxy a reaches the file; the rows of one
\* proxy are written together, the proxies in the order of the mapping.
SaveWriteRow(a) ==
    /\ pc = "save_write"
    /\ Len(history_file.rows[a]) < Len(history[a])
    /\ \A b \in Addr \ {a} :
          Len(history_file.rows[b]) \in {0, Len(history[b])}
    /\ history_file' =
          [history_file EXCEPT !.rows[a] =
              Append(@, FormatRow(history[a][Len(@) + 1])),
                               !.stamps[a] = Append(@, run)]
    /\ UNCHANGED <<readVars, dbVars>>
    /\ UNCHANGED <<pc, run, files, lists, dedupVars, callVars, gateVars,
                   resultVars, history, appended, outputVars>>

\* Line 208: the `with` block is left after the last row.
SaveClose ==
    /\ pc = "save_write"
    /\ history_file.rows = SavedHistory(history)
    /\ history_file.stamps = SavedStamps(history, run)
    /\ pc' = "rows"
    /\ UNCHANGED <<readVars, dbVars>>
    /\ UNCHANGED <<run, files, lists, dedupVars, callVars, gateVars,
                   resultVars, historyVars, outputVars>>

\* Lines 208 and 315: open() raises OSError (the store cannot be written);
\* neither save_history nor main has a handler, so the exception ends the run.
SaveRaises ==
    /\ pc = "save_history"
    /\ pc' = "save_failed"
    /\ UNCHANGED <<readVars, dbVars>>
    /\ UNCHANGED <<run, files, lists, dedupVars, callVars, gateVars,
                   resultVars, historyVars, outputVars>>

\* The process is killed between two writes of save_history.
KilledInSave ==
    /\ pc = "save_write"
    /\ pc' = "killed"
    /\ UNCHANGED <<readVars, dbVars>>
    /\ UNCHANGED <<run, files, lists, dedupVars, callVars, gateVars,
                   resultVars, historyVars, outputVars>>

(***************************************************************************)
(* Scorer: the rows of main, and their sort                                *)
(***************************************************************************)
SumScores(entries) ==
    LET f[i \in 0..Len(entries)] ==
            IF i = 0 THEN 0 ELSE f[i - 1] + entries[i][1]
    IN  f[Len(entries)]

Succeeded(entries) == SelectSeq(entries, LAMBDA e : e[2])

\* x < y for two quotients <<numerator, denominator>>.
FracLess(x, y) == x[1] * y[2] < y[1] * x[2]

\* A row computed from the outcome of the run alone, whatever the window.
RowOfCurrentOnly(r, h) ==
    [proxy |-> r.proxy, scheme |-> r.scheme, lat |-> r.lat, spd |-> r.spd,
     sc |-> r.sc,
     lt |-> <<r.sc, 1>>,
     rr |-> <<IF r.success THEN 100 ELSE 0, 1>>,
     ra |-> <<IF r.success THEN r.sc ELSE 0, 1>>]

\* Lines 320-325: the row of one result.
RowOf(r, h) ==
    LET entries == h[r.proxy]
        ss == Succeeded(entries)
    IN  [proxy |-> r.proxy, scheme |-> r.scheme, lat |-> r.lat, spd |-> r.spd,
         sc |-> r.sc,
         lt |-> IF entries # <<>> THEN <<SumScores(entries), Len(entries)>>
                ELSE <<r.sc, 1>>,
         rr |-> IF entries # <<>> THEN <<100 * Len(ss), Len(entries)>>
                ELSE <<IF r.success THEN 100 ELSE 0, 1>>,
         ra |-> IF ss # <<>> THEN <<SumScores(ss), Len(ss)>> ELSE <<0, 1>>]

Rows(results, h) == [i \in DOMAIN results |-> RowOf(results[i], h)]

\* x placed in s behind its first k elements.  A stable sort with
\* reverse=True puts an element behind every element that is not smaller.
InsertStable(s, x, k) ==
    SubSeq(s, 1, k) \o <<x>> \o SubSeq(s, k + 1, Len(s))

LtLess(r1, r2) == FracLess(r1.lt, r2.lt)

\* sorted(rows, key=lambda r: r[5], reverse=True)
SortedByLt(rows) ==
    LET f[i \in 0..Len(rows)] ==
            IF i = 0 THEN <<>>
            ELSE InsertStable(f[i - 1], rows[i],
                    Cardinality({j \in DOMAIN f[i - 1] :
                                    ~LtLess(f[i - 1][j], rows[i])}))
    IN  f[Len(rows)]

PrepareRows ==
    /\ pc = "rows"
    /\ sorted_rows' = SortedByLt(Rows(all_results, history))
    /\ pc' = "csv"
    /\ UNCHANGED <<readVars, dbVars>>
    /\ UNCHANGED <<run, files, lists, dedupVars, callVars, gateVars,
                   resultVars, historyVars, csv_file, final_proxies,
                   mb_proxies_count, mb_file>>

\* Lines 330-344: the report, one line per row in sorted order (the address
\* and protocol columns; the numeric columns are not kept).
WriteCsv ==
    /\ pc = "csv"
    /\ csv_file' = [exists |-> TRUE,
                    rows |-> [i \in DOMAIN sorted_rows |->
                        <<sorted_rows[i].proxy, sorted_rows[i].scheme>>]]
    /\ pc' = "save_mb"
    /\ UNCHANGED <<readVars, dbVars>>
    /\ UNCHANGED <<run, files, lists, dedupVars, callVars, gateVars,
                   resultVars, historyVars, sorted_rows, final_proxies,
                   mb_proxies_count, mb_file>>

(***************************************************************************)
(* Selector: save_mb_proxies                                               *)
(***************************************************************************)
\* A filter that forgets the response rate.
QualifiesIgnoringRate(row) ==
    /\ row.sc >= MIN_SCORE_THRESHOLD
    /\ row.lat # None
    /\ row.spd # None

\* Lines 225-227: the qualification filter.
Qualifies(row) ==
    /\ row.sc >= MIN_SCORE_THRESHOLD
    /\ row.rr[1] >= MIN_RESPONSE_RATE * row.rr[2]
    /\ row.lat # None
    /\ row.spd # None

\* A selection that keeps every row.
QualifiedProxiesUnfiltered(rows) ==
    [i \in DOMAIN rows |-> <<rows[i].proxy, rows[i].sc>>]

\* Lines 218-228: qualified_proxies, pairs (proxy, sc) in the rows' order.
QualifiedProxies(rows) ==
    LET q == SelectSeq(rows, Qualifies)
    IN  [i \in DOMAIN q |-> <<q[i].proxy, q[i].sc>>]

ScLess(p1, p2) == p1[2] < p2[2]

\* No second sort: the pairs stay in the rows' order.
SortedByScSkipped(pairs) == pairs

\* qualified_proxies.sort(key=lambda x: x[1], reverse=True)
SortedBySc(pairs) ==
    LET f[i \in 0..Len(pairs)] ==
            IF i = 0 THEN <<>>
            ELSE InsertStable(f[i - 1], pairs[i],
                    Cardinality({j \in DOMAIN f[i - 1] :
                                    ~ScLess(f[i - 1][j], pairs[i])}))
    IN  f[Len(pairs)]

\* A selector that fills up to the minimum count with rows that failed the
\* filter.
FinalProxiesBackfilled(qualified, rows) ==
    IF Len(qualified) < MIN_PROXIES_COUNT
    THEN LET rest == SelectSeq(rows, LAMBDA r : ~Qualifies(r))
             n == IF Len(rest) < MIN_PROXIES_COUNT - Len(qualified)
                  THEN Len(rest) ELSE MIN_PROXIES_COUNT - Len(qualified)
         IN  qualified \o [i \in 1..n |-> <<rest[i].proxy, rest[i].sc>>]
    ELSE qualified

\* Lines 238-249: both branches keep every qualified proxy.
FinalProxies(qualified, rows) ==
    IF Len(qualified) <= MIN_PROXIES_COUNT
    THEN qualified
    ELSE qualified

\* A selector that opens the file before it looks at the rows: with no
\* qualified proxy the list on disk is emptied.
SaveMbProxiesTruncating ==
    /\ pc = "save_mb"
    /\ LET qualified == QualifiedProxies(sorted_rows)
           chosen == FinalProxies(SortedBySc(qualified), sorted_rows)
       IN  /\ final_proxies' = chosen
           /\ mb_proxies_count' = Len(chosen)
           /\ mb_file' = [exists |-> TRUE,
                          lines |-> [i \in DOMAIN chosen |-> chosen[i][1]]]
    /\ pc' = "exit"
    /\ UNCHANGED <<readVars, dbVars>>
    /\ UNCHANGED <<run, files, lists, dedupVars, callVars, gateVars,
                   resultVars, historyVars, sorted_rows, csv_file>>

\* Lines 215-260 and 347.
SaveMbProxies ==
    /\ pc = "save_mb"
    /\ LET qualified == QualifiedProxies(sorted_rows)
           chosen == FinalProxies(SortedBySc(qualified), sorted_rows)
       IN  IF qualified = <<>>
           THEN /\ final_proxies' = <<>>
                /\ mb_proxies_count' = 0
                /\ mb_file' = mb_file
           ELSE /\ final_proxies' = chosen
                /\ mb_proxies_count' = Len(chosen)
                /\ mb_file' = [exists |-> TRUE,
                               lines |-> [i \in DOMAIN chosen |-> chosen[i][1]]]
    /\ pc' = "exit"
    /\ UNCHANGED <<readVars, dbVars>>
    /\ UNCHANGED <<run, files, lists, dedupVars, callVars, gateVars,
                   resultVars, historyVars, sorted_rows, csv_file>>

(***************************************************************************)
(* The pipeline                                                            *)
(***************************************************************************)
Fail9 == [i \in 1..9 |-> <<0, "0">>]

\* The files earlier runs may have left in Output/: nothing, or a store in
\* which "A" has failed nine times and "B" succeeded once (score 0.40) and
\* then failed nine times.  No proxy ever qualified, so MBProxies.txt was
\* never written.
InitStores ==
    {[history |-> NoHistoryFile, csv |-> NoCsvFile],
     [history |-> [exists |-> TRUE,
                   rows |-> [a \in Addr |->
                     IF a = "A" THEN Fail9
                     ELSE IF a = "B" THEN <<<<400, "1">>>> \o Fail9
                     ELSE <<>>],
                   stamps |-> [a \in Addr |->
                     IF a = "A" THEN [i \in 1..9 |-> 0]
                     ELSE IF a = "B" THEN [i \in 1..10 |-> 0]
                     ELSE <<>>]],
      csv |-> [exists |-> TRUE,
               rows |-> <<<<"B", "http">>, <<"A", "http">>>>]]}

StoredEntries(file) ==
    [a \in Addr |-> [i \in DOMAIN file.rows[a] |-> ParseRow(file.rows[a][i])]]

\* A store with a row whose Score field is not a number.
DamagedStore ==
    [history |-> [exists |-> TRUE,
                  rows |-> [a \in Addr |->
                    IF a = "A" THEN <<<<400, "1">>, <<NotANumber, "0">>>>
                    ELSE <<>>],
                  stamps |-> [a \in Addr |->
                    IF a = "A" THEN <<0, 0>> ELSE <<>>]],
     csv |-> NoCsvFile]

\* A store with more rows than a window holds: twelve for "A" (scores 0.01
\* to 0.12, oldest first, every third one a success), eleven failures for
\* "C".
LongStore ==
    [history |-> [exists |-> TRUE,
                  rows |-> [a \in Addr |->
                    IF a = "A"
                    THEN [i \in 1..12 |->
                            <<10 * i, IF i % 3 = 0 THEN "1" ELSE "0">>]
                    ELSE IF a = "C" THEN [i \in 1..11 |-> <<0, "0">>]
                    ELSE <<>>],
                  stamps |-> [a \in Addr |->
                    IF a = "A" THEN [i \in 1..12 |-> 0]
                    ELSE IF a = "C" THEN [i \in 1..11 |-> 0]
                    ELSE <<>>]],
     csv |-> NoCsvFile]

PipelineAt(stores) ==
    /\ pc = "exit"
    /\ run = 0
    /\ files = EmptyLists
    /\ lists = EmptyLists
    /\ remaining = {}
    /\ final = EmptyLists
    /\ si = 1
    /\ started = FALSE
    /\ tasks = IdleTasks
    /\ ended = NoneEnded
    /\ probes = NoProbes
    /\ pre_screen_sem = PRE_SCREEN_CONCURRENT
    /\ sem = CONCURRENT_LIMIT
    /\ stage_out = <<>>
    /\ to_test = EmptyLists
    /\ all_results = <<>>
    /\ good = <<>>
    /\ bad = <<>>
    /\ history = EmptyHistory
    /\ \E store \in stores :
        /\ history_file = store.history
        /\ csv_file = store.csv
        /\ appended = StoredEntries(store.history)
    /\ sorted_rows = <<>>
    /\ final_proxies = <<>>
    /\ mb_proxies_count = 0
    /\ mb_file = NoMbFile

\* The state before the first run of the pipeline.
InitWith(stores) ==
    /\ PipelineAt(stores)
    /\ ReadIdle
    /\ DbIdle

Init == InitWith(InitStores)

\* Input files of the specification Spec: addresses "A" and "B".
ProxyFiles ==
    {EmptyLists,
     [http |-> <<"A", "B">>, socks5 |-> <<"A">>, socks4 |-> <<>>],
     [http |-> <<"A", "B">>, socks5 |-> <<>>, socks4 |-> <<>>],
     [http |-> <<>>, socks5 |-> <<"A">>, socks4 |-> <<"A", "B">>]}

\* Input files of the specification SpecGate: three addresses.
GateFiles ==
    {[http |-> <<"A", "B", "C">>, socks5 |-> <<>>, socks4 |-> <<>>],
     [http |-> <<"A", "B">>, socks5 |-> <<"A", "C">>, socks4 |-> <<>>]}

\* The steps of main up to the end of the Performance Stage.
Probing(samples, failures) ==
    \/ DedupBegin
    \/ \E ip \in Addr : DedupStep(ip)
    \/ DedupReturn
    \/ PreScreenSpawn
    \/ \E a \in Addr : PreScreenAcquire(a)
    \/ \E a \in Addr, outcome \in PreScreenOutcomes \cap ({"200"} \cup failures) :
          PreScreenFinish(a, outcome)
    \/ PreScreenReturn
    \/ PerfSkip
    \/ PerfSpawn
    \/ \E a \in Addr : PerfAcquire(a)
    \/ \E a \in Addr, s \in samples : PerfSucceed(a, s[1], s[2])
    \/ \E a \in Addr, reason \in failures : PerfFail(a, reason)
    \/ PerfReturn

\* The steps of main after save_history.
Reporting ==
    \/ PrepareRows
    \/ WriteCsv
    \/ SaveMbProxies

Steps(samples, failures) ==
    \/ Probing(samples, failures)
    \/ LoadHistory
    \/ MergeHistory
    \/ SaveHistory
    \/ Reporting

Next ==
    \/ \E fs \in ProxyFiles : StartRun(fs, MaxRuns)
    \/ Steps(FewSamples, FewFailures)

Spec == Init /\ [][Next]_vars

\* One run of the pipeline on three addresses.
NextGate ==
    \/ \E fs \in GateFiles : StartRun(fs, 1)
    \/ Steps(PerfSamples, PerfFailures)

SpecGate == Init /\ [][NextGate]_vars

(***************************************************************************)
(* Specification of the score: one run on two addresses                    *)
(***************************************************************************)
ScoreFiles ==
    {[http |-> <<"A", "B">>, socks5 |-> <<>>, socks4 |-> <<>>],
     [http |-> <<"A">>, socks5 |-> <<"B">>, socks4 |-> <<"A">>]}

NextScore ==
    \/ \E fs \in ScoreFiles : StartRun(fs, 1)
    \/ Steps(ScoreSamples, PerfFailures)

SpecScore == Init /\ [][NextScore]_vars

(***************************************************************************)
(* Specification of a first run: no file in Output/, "A" listed under two  *)
(* protocols, every failure a timeout                                      *)
(***************************************************************************)
FirstRunFiles ==
    {[http |-> <<"A", "B">>, socks5 |-> <<"A", "C">>, socks4 |-> <<>>]}

InitFirstRun == InitWith({[history |-> NoHistoryFile, csv |-> NoCsvFile]})

NextFirstRun ==
    \/ \E fs \in FirstRunFiles : StartRun(fs, 1)
    \/ Steps(FewSamples, FewFailures)

SpecFirstRun == InitFirstRun /\ [][NextFirstRun]_vars

(***************************************************************************)
(* Specification with a fair scheduler: one run on a list of three proxies,*)
(* more than a gate has slots.  The event loop runs every task that is     *)
(* ready and every request ends by its timeout, so a step that stays       *)
(* possible is eventually taken.                                           *)
(***************************************************************************)
LiveFiles ==
    {[http |-> <<"A", "B", "C">>, socks5 |-> <<>>, socks4 |-> <<>>]}

\* The one measurement this specification draws from.
LiveSamples == {<<10000, 1000>>}

NextLive ==
    \/ \E fs \in LiveFiles : StartRun(fs, 1)
    \/ Steps(LiveSamples, FewFailures)

SpecLive == InitFirstRun /\ [][NextLive]_vars /\ WF_vars(NextLive)

(***************************************************************************)
(* Specification of the load: one run, from a missing store, a store of    *)
(* full windows or a store with more rows than a window holds              *)
(***************************************************************************)
InitLoad == InitWith(InitStores \cup {LongStore})

SpecLoad == InitLoad /\ [][NextFirstRun]_vars

(***************************************************************************)
(* Specification of the history store: one run, from a missing, a sound or *)
(* a damaged store, with save_history taken write by write                 *)
(***************************************************************************)
InitStore == InitWith(InitStores \cup {DamagedStore})

NextStore ==
    \/ \E fs \in ProxyFiles : StartRun(fs, 1)
    \/ Probing(FewSamples, FewFailures)
    \/ LoadHistory
    \/ MergeHistory
    \/ SaveOpen
    \/ \E a \in Addr : SaveWriteRow(a)
    \/ SaveClose
    \/ SaveRaises
    \/ KilledInSave
    \/ Reporting

SpecStore == InitStore /\ [][NextStore]_vars

(***************************************************************************)
(* Specification of remove_duplicates alone, on every triple of lists of   *)
(* at most MaxListLen addresses (repeats included).                        *)
(***************************************************************************)
DedupInputs ==
    {[http |-> h, socks5 |-> s5, socks4 |-> s4] :
        h \in SeqsUpTo(Addr, MaxListLen),
        s5 \in SeqsUpTo(Addr, MaxListLen),
        s4 \in SeqsUpTo(Addr, MaxListLen)}

InitDedup ==
    /\ pc = "dedup"
    /\ run = 1
    /\ files \in DedupInputs
    /\ lists = files
    /\ remaining = {}
    /\ final = EmptyLists
    /\ si = 1
    /\ started = FALSE
    /\ tasks = IdleTasks
    /\ ended = NoneEnded
    /\ probes = NoProbes
    /\ pre_screen_sem = PRE_SCREEN_CONCURRENT
    /\ sem = CONCURRENT_LIMIT
    /\ stage_out = <<>>
    /\ to_test = EmptyLists
    /\ all_results = <<>>
    /\ good = <<>>
    /\ bad = <<>>
    /\ history = EmptyHistory
    /\ history_file = NoHistoryFile
    /\ sorted_rows = <<>>
    /\ csv_file = NoCsvFile
    /\ final_proxies = <<>>
    /\ mb_proxies_count = 0
    /\ mb_file = NoMbFile
    /\ appended = [a \in Addr |-> <<>>]
    /\ ReadIdle
    /\ DbIdle

NextDedup ==
    \/ DedupBegin
    \/ \E ip \in Addr : DedupStep(ip)
    \/ DedupReturn

SpecDedup == InitDedup /\ [][NextDedup]_vars

(***************************************************************************)
(* Claims on remove_duplicates                                             *)
(***************************************************************************)
DedupDone == pc = "prescreen"

InputCount(a) == Cardinality({p \in SchemeSet : a \in ToSet(files[p])})

\* C1: after remove_duplicates, every address of the input union is in the
\* output of exactly the highest-priority protocol whose input contains it
\* (socks5 if socks5 has it, else http, else socks4) and in no other output;
\* an address of exactly one input is in that protocol's output.
C1_DedupPriority ==
    DedupDone =>
        \A a \in AllIps(files) :
            LET best == IF a \in ToSet(files.socks5) THEN "socks5"
                        ELSE IF a \in ToSet(files.http) THEN "http"
                        ELSE "socks4"
            IN  /\ \A p \in SchemeSet : (a \in ToSet(lists[p])) <=> (p = best)
                /\ InputCount(a) = 1 => a \in ToSet(files[best])

\* Witness of C1: an address of http and socks5 went to socks5, one of http
\* and socks4 went to http, and one of socks4 alone stayed in socks4.
C1_Witness ==
    /\ DedupDone
    /\ \E a, b, c \in Addr :
        /\ InputCount(a) = 2 /\ a \in ToSet(files.http)
        /\ a \in ToSet(files.socks5) /\ a \in ToSet(lists.socks5)
        /\ InputCount(b) = 2 /\ b \in ToSet(files.http)
        /\ b \in ToSet(files.socks4) /\ b \in ToSet(lists.http)
        /\ InputCount(c) = 1 /\ c \in ToSet(files.socks4)
        /\ c \in ToSet(lists.socks4)

\* C2: for all inputs, repeats included, the three outputs are pairwise
\* disjoint, no output lists an address twice, and the union of the outputs
\* is the union of the inputs.
C2_DedupPartition ==
    DedupDone =>
        /\ \A p, q \in SchemeSet :
              p # q => ToSet(lists[p]) \cap ToSet(lists[q]) = {}
        /\ \A p \in SchemeSet : NoRepeats(lists[p])
        /\ AllIps(lists) = AllIps(files)

\* Witness of C2: an input repeats an address that another input also holds.
C2_Witness ==
    /\ DedupDone
    /\ \E p, q \in SchemeSet :
        /\ p # q
        /\ ~NoRepeats(files[p])
        /\ ToSet(files[p]) \cap ToSet(files[q]) # {}
    /\ AllIps(lists) = Addr

(***************************************************************************)
(* Claims on the admission gates                                           *)
(***************************************************************************)
InFlightPre == {a \in Addr : pc = "prescreen" /\ tasks[a] = "holding"}

InFlightPerf == {a \in Addr : pc = "perf" /\ tasks[a] = "holding"}

\* C3: at every instant at most PRE_SCREEN_CONCURRENT prescreen probes hold
\* the prescreen gate and at most CONCURRENT_LIMIT performance probes hold the
\* performance gate, and a probe of one stage takes no slot of the other gate.
C3_GateBounds ==
    /\ Cardinality(InFlightPre) <= PRE_SCREEN_CONCURRENT
    /\ Cardinality(InFlightPerf) <= CONCURRENT_LIMIT
    /\ pc = "prescreen" => sem = CONCURRENT_LIMIT
    /\ pc = "perf" => pre_screen_sem = PRE_SCREEN_CONCURRENT

\* Witness of C3: the performance gate is full and a probe waits at it.
C3_Witness ==
    /\ Cardinality(InFlightPerf) = CONCURRENT_LIMIT
    /\ \E a \in Addr : tasks[a] = "waiting"
    /\ pre_screen_sem = PRE_SCREEN_CONCURRENT

\* C4: a slot is held only by a probe in flight, whatever way the earlier
\* probes ended: once the probes of a call have all ended the gate of its
\* stage has all its slots again, so the next call starts with the full limit.
C4_SlotsReleased ==
    /\ pre_screen_sem = PRE_SCREEN_CONCURRENT - Cardinality(InFlightPre)
    /\ sem = CONCURRENT_LIMIT - Cardinality(InFlightPerf)
    /\ AllJoined =>
          /\ pre_screen_sem = PRE_SCREEN_CONCURRENT
          /\ sem = CONCURRENT_LIMIT

\* Witness of C4: the http call of the Performance Stage has joined with a
\* failed and a successful probe, and the socks5 call is next.
C4_Witness ==
    /\ pc = "perf"
    /\ si = 2
    /\ ~started
    /\ \E i, j \in DOMAIN all_results :
          all_results[i].success /\ ~all_results[j].success
    /\ \E a \in Addr : a \in ToSet(lists.http) /\ a \notin ToSet(to_test.http)
    /\ sem = CONCURRENT_LIMIT

(***************************************************************************)
(* Claims on the rolling windows                                           *)
(***************************************************************************)
\* C5: after any sequence of loads and merges, over any number of runs, the
\* window of every address, in memory and in the store, holds at most
\* HISTORY_MAX_RUNS entries.
C5_WindowBound ==
    \A a \in Addr :
        /\ Len(history[a]) <= HISTORY_MAX_RUNS
        /\ Len(history_file.rows[a]) <= HISTORY_MAX_RUNS

\* Witness of C5: more than HISTORY_MAX_RUNS entries were appended for an
\* address and its window is full.
C5_Witness ==
    \E a \in Addr :
        /\ Len(appended[a]) > HISTORY_MAX_RUNS
        /\ Len(history[a]) = HISTORY_MAX_RUNS
        /\ Len(history_file.rows[a]) = HISTORY_MAX_RUNS

LastN(s, n) == SubSeq(s, Len(s) - n + 1, Len(s))

\* The most recent min(n, W) of the n entries ever appended for a.
Recent(a) ==
    LastN(appended[a],
          IF Len(appended[a]) < HISTORY_MAX_RUNS
          THEN Len(appended[a]) ELSE HISTORY_MAX_RUNS)

\* The merge loop of the current run has run.
WindowsMerged == pc \in {"save_history", "rows", "csv", "save_mb"}

TestedNow(a) == \E i \in DOMAIN all_results : all_results[i].proxy = a

\* C6 as claimed: after the merge the window of every address is exactly the
\* most recent min(n, W) of the n entries ever appended for it, in order.
C6_Original ==
    WindowsMerged => \A a \in Addr : history[a] = Recent(a)

\* C6, amended: after the merge the window of every address holds the most
\* recent min(n, W) of the n entries ever appended for it, in the order they
\* were appended and each with its success flag; the entry of the current run
\* has its score as measured, every older entry its score rounded to two
\* decimals.  The store holds the same entries, all rounded.
C6_FifoEviction ==
    \A a \in Addr :
        LET rec == Recent(a)
            rounded == [i \in DOMAIN rec |-> <<Round2(rec[i][1]), rec[i][2]>>]
        IN  /\ WindowsMerged =>
                history[a] = [i \in DOMAIN rec |->
                                 IF i = Len(rec) /\ TestedNow(a)
                                 THEN rec[i] ELSE rounded[i]]
            /\ pc # "save_history" =>
                history_file.rows[a] =
                    [i \in DOMAIN rec |-> FormatRow(rec[i])]

\* Witness of C6: an entry was appended to a full window and the entry that
\* left differs from the one that is now the oldest.
C6_Witness ==
    /\ WindowsMerged
    /\ \E a \in Addr :
        LET n == Len(appended[a])
        IN  /\ n > HISTORY_MAX_RUNS
            /\ TestedNow(a)
            /\ appended[a][n - HISTORY_MAX_RUNS]
                  # appended[a][n - HISTORY_MAX_RUNS + 1]

(***************************************************************************)
(* Claims on the selection                                                 *)
(***************************************************************************)
\* save_mb_proxies has returned in the current run.
RunComplete == pc = "exit" /\ all_results # <<>>

Emitted == {final_proxies[i][1] : i \in DOMAIN final_proxies}

SuccessCount(a) == Cardinality({i \in DOMAIN history[a] : history[a][i][2]})

\* The result of a meets the three conditions of the filter, read from the
\* outcome of the run and the window after the merge.
MeetsFilter(a) ==
    \E i \in DOMAIN all_results :
        /\ all_results[i].proxy = a
        /\ all_results[i].sc >= MIN_SCORE_THRESHOLD
        /\ 100 * SuccessCount(a) >= MIN_RESPONSE_RATE * Len(history[a])
        /\ all_results[i].success
        /\ all_results[i].lat # None
        /\ all_results[i].spd # None

ResultOf(a) == CHOOSE r \in ToSet(all_results) : r.proxy = a

\* C7: an endpoint is in the qualifying list of a run iff its current score
\* is at least MIN_SCORE_THRESHOLD, its response rate over its window after
\* the merge is at least MIN_RESPONSE_RATE, and it succeeded in the
\* Performance Stage of the run; a list that is written is that list.
C7_QualifyingIff ==
    RunComplete =>
        /\ \A a \in Addr : a \in Emitted <=> MeetsFilter(a)
        /\ mb_proxies_count > 0 =>
              mb_file.lines = [i \in DOMAIN final_proxies |-> final_proxies[i][1]]

\* Witness of C7: one endpoint is emitted, one succeeded with a sufficient
\* score but a response rate below the minimum, one succeeded below the score
\* threshold.
C7_Witness ==
    /\ RunComplete
    /\ \E a, b, c \in Addr :
        /\ a \in Emitted
        /\ TestedNow(b) /\ ResultOf(b).success
        /\ ResultOf(b).sc >= MIN_SCORE_THRESHOLD
        /\ 100 * SuccessCount(b) < MIN_RESPONSE_RATE * Len(history[b])
        /\ b \notin Emitted
        /\ TestedNow(c) /\ ResultOf(c).success
        /\ ResultOf(c).sc < MIN_SCORE_THRESHOLD
        /\ c \notin Emitted

\* C8: the number of endpoints emitted is the number of qualifying endpoints,
\* be it below, equal to or above MIN_PROXIES_COUNT.
C8_NoBackfill ==
    RunComplete =>
        /\ mb_proxies_count = Cardinality({a \in Addr : MeetsFilter(a)})
        /\ Len(final_proxies) = Cardinality({a \in Addr : MeetsFilter(a)})

\* Witness of C8: fewer endpoints qualify than MIN_PROXIES_COUNT, others were
\* tested and do not qualify, and only the qualifying ones are emitted.
C8_Witness ==
    /\ RunComplete
    /\ Cardinality({a \in Addr : MeetsFilter(a)}) > 0
    /\ Cardinality({a \in Addr : MeetsFilter(a)}) < MIN_PROXIES_COUNT
    /\ \E b \in Addr : TestedNow(b) /\ ~MeetsFilter(b)
    /\ mb_proxies_count = Cardinality({a \in Addr : MeetsFilter(a)})

\* C9 as claimed: when a run ends, the qualifying list on disk holds only
\* endpoints that succeeded in the Performance Stage of that run.
C9_Original ==
    (pc = "exit" /\ run > 0) =>
        \A a \in ToSet(mb_file.lines) :
            \E i \in DOMAIN all_results :
                all_results[i].proxy = a /\ all_results[i].success

LtOf(a) == <<SumScores(history[a]), Len(history[a])>>

AddrRank(a) == CASE a = "A" -> 1 [] a = "B" -> 2 [] a = "C" -> 3

RowsRanked == pc \in {"csv", "save_mb"}

\* C11 as claimed: the ranked rows are in the one order the probe outcomes and
\* the history determine, by longTermScore descending with ties broken by the
\* address, whatever order the concurrent probes completed in.
C11_Original ==
    RowsRanked =>
        \A i, j \in DOMAIN sorted_rows :
            i < j =>
                \/ FracLess(sorted_rows[j].lt, sorted_rows[i].lt)
                \/ /\ ~FracLess(sorted_rows[i].lt, sorted_rows[j].lt)
                   /\ AddrRank(sorted_rows[i].proxy) < AddrRank(sorted_rows[j].proxy)

(***************************************************************************)
(* C12: the Prescreen Stage returns exactly the proxies that answered 200  *)
(***************************************************************************)
\* The proxies of a list whose prescreen request ended with status 200.
Answered200(list) == {a \in ToSet(list) : ended[a] = "200"}

\* C12: what pre_screen_proxies returns for a list is exactly the set of the
\* proxies of that list whose request completed with status 200, each once: a
\* proxy whose request met a connection error, another status or the timeout
\* is absent, and nothing outside the list is present.
C12_PreScreenExact ==
    pc = "prescreen" =>
        /\ ToSet(stage_out) \subseteq Answered200(lists[Scheme])
        /\ NoRepeats(stage_out)
        /\ (started /\ AllJoined) =>
              ToSet(stage_out) = Answered200(lists[Scheme])
        /\ \A k \in 1..(si - 1) :
              /\ ToSet(to_test[Protocols[k]]) = Answered200(lists[Protocols[k]])
              /\ NoRepeats(to_test[Protocols[k]])

\* Witness of C12: a call on three proxies has joined its tasks; one answered
\* 200 and is returned, one met a connection error and one another status.
C12_Witness ==
    /\ pc = "prescreen"
    /\ started
    /\ AllJoined
    /\ lists.http = <<"A", "B", "C">>
    /\ ended = [a \in Addr |->
                  CASE a = "A" -> "error" [] a = "B" -> "200" [] a = "C" -> "status"]
    /\ stage_out = <<"B">>

(***************************************************************************)
(* C13: the Performance Stage returns one outcome per proxy it was given   *)
(***************************************************************************)
\* Number of results for address a, and number of occurrences of a in a list.
ProxyCount(a, results) == Cardinality({i \in DOMAIN results : results[i].proxy = a})

ListCount(a, list) == Cardinality({i \in DOMAIN list : list[i] = a})

\* The lists of the run_tests calls that have returned.
TestedLists ==
    IF pc = "perf"
    THEN CASE si = 1 -> <<>>
           [] si = 2 -> to_test.http
           [] si = 3 -> to_test.http \o to_test.socks5
    ELSE AllToTest(to_test)

PerfJoined == pc = "perf" /\ started /\ AllJoined

\* C13: run_tests returns exactly one outcome for every proxy it is given,
\* whatever the interleaving of the probes: the multiset of the addresses of
\* its results equals the multiset of the addresses of its input, and so does
\* what main has accumulated from the calls that returned.
C13_OneOutcomeEach ==
    /\ PerfJoined =>
          /\ Len(stage_out) = Len(to_test[Scheme])
          /\ \A a \in Addr :
                ProxyCount(a, stage_out) = ListCount(a, to_test[Scheme])
    /\ pc \in {"perf", "load_history", "merge", "save_history", "rows", "csv",
               "save_mb"} =>
          \A a \in Addr : ProxyCount(a, all_results) = ListCount(a, TestedLists)

\* Witness of C13: a call on three proxies has joined its tasks; the results
\* are not in input order and hold a failure between two successes.
C13_Witness ==
    /\ PerfJoined
    /\ to_test.http = <<"A", "B", "C">>
    /\ Len(stage_out) = 3
    /\ stage_out[1].proxy = "C" /\ stage_out[1].success
    /\ stage_out[2].proxy = "A" /\ ~stage_out[2].success
    /\ stage_out[3].proxy = "B" /\ stage_out[3].success

(***************************************************************************)
(* C14: what a failed performance probe returns                            *)
(***************************************************************************)
\* The results of the Performance Stage so far, the call in progress included.
StageResults == all_results \o stage_out

\* C14: a performance probe whose request ended with a status other than 200
\* and 206, with a connection error or with the timeout yields a failed
\* outcome with score 0 and no latency and no throughput; an outcome is a
\* success exactly when the status was accepted and the body was read.
C14_FailedOutcome ==
    pc = "perf" =>
        \A i \in DOMAIN StageResults :
            LET r == StageResults[i]
                e == ended[r.proxy]
            IN  /\ e \in PerfFailures \cup {"ok"}
                /\ e \in PerfFailures =>
                      /\ ~r.success
                      /\ r.sc = 0
                      /\ r.lat = None
                      /\ r.spd = None
                /\ r.success <=> e = "ok"
                /\ r.success => r.lat # None /\ r.spd # None

\* Witness of C14: of three probes one met the timeout, one a refused status
\* and one succeeded.
C14_Witness ==
    /\ PerfJoined
    /\ Len(stage_out) = 3
    /\ ended = [a \in Addr |->
                  CASE a = "A" -> "timeout" [] a = "B" -> "status" [] a = "C" -> "ok"]
    /\ \E i \in 1..3 : stage_out[i] = BadResult("A", "http")
    /\ \E i \in 1..3 : stage_out[i] = BadResult("B", "http")
    /\ \E i \in 1..3 : stage_out[i].proxy = "C" /\ stage_out[i].success

(***************************************************************************)
(* C15: the failure of a probe is confined to its own proxy                *)
(***************************************************************************)
\* The step in which the request of address a ends in a failure.
ProbeFails(a) ==
    /\ tasks[a] = "holding"
    /\ tasks'[a] = "done"
    /\ ended'[a] \in PerfFailures

\* C15: when the probe of one proxy fails, in either stage, the failure
\* becomes that proxy's dead or failed result and nothing else: the stage goes
\* on, no other task changes position, no other proxy's outcome or result is
\* changed, and what earlier calls returned is left as it was.
C15_FailureConfined ==
    [][\A a \in Addr :
          ProbeFails(a) =>
              /\ pc' = pc
              /\ si' = si
              /\ \A b \in Addr \ {a} :
                    tasks'[b] = tasks[b] /\ ended'[b] = ended[b]
              /\ stage_out' = IF pc = "perf"
                              THEN Append(stage_out, BadResult(a, Scheme))
                              ELSE stage_out
              /\ to_test' = to_test
              /\ all_results' = all_results]_vars

\* Witness of C15: in one call a probe failed while another was in flight,
\* and the other one then succeeded.
C15_Witness ==
    /\ pc = "perf"
    /\ Len(stage_out) = 2
    /\ ~stage_out[1].success
    /\ stage_out[2].success
    /\ tasks[stage_out[2].proxy] = "done"
    /\ probes[stage_out[2].proxy].perf = 1
    /\ \E c \in Addr : tasks[c] = "holding"

(***************************************************************************)
(* C16: one request per proxy and stage                                    *)
(***************************************************************************)
\* C16: in a run every proxy left by the deduplication is probed at most once
\* in the Prescreen Stage and at most once in the Performance Stage, under
\* whatever protocol; only a proxy of the deduplicated lists is prescreened
\* and only a responsive one is tested.
C16_ProbedOnce ==
    \A a \in Addr :
        /\ probes[a].pre <= 1
        /\ probes[a].perf <= 1
        /\ probes[a].pre = 1 => a \in AllIps(lists)
        /\ probes[a].perf = 1 => a \in ToSet(AllToTest(to_test))

\* Witness of C16: the run is over; "A" was listed under two protocols and
\* was probed once in each stage, failing in the second; "B" was probed once,
\* in the Prescreen Stage, where it did not answer.
C16_Witness ==
    /\ RunComplete
    /\ files.http = <<"A", "B">>
    /\ files.socks5 = <<"A", "C">>
    /\ lists.http = <<"B">>
    /\ probes["A"] = [pre |-> 1, perf |-> 1]
    /\ "A" \in ToSet(bad)
    /\ probes["B"] = [pre |-> 1, perf |-> 0]
    /\ probes["C"] = [pre |-> 1, perf |-> 1]

(***************************************************************************)
(* C17: the history is touched only once the probing is over               *)
(***************************************************************************)
\* A step that gives the history mapping new content (the start of a new
\* process, which begins with no mapping, is not one).
HistoryWritten ==
    \/ history' # history /\ history' # EmptyHistory
    \/ appended' # appended

\* C17: the history mapping is loaded and appended to only after all the
\* concurrent probing has been joined: in the step that changes it no task
\* exists, no call is in progress, and every responsive proxy has its result
\* in all_results; the appends of the merge are one step of main.
C17_MergeAfterJoin ==
    [][HistoryWritten =>
          /\ pc \in {"load_history", "merge"}
          /\ ~started
          /\ tasks = IdleTasks
          /\ \A a \in Addr :
                ProxyCount(a, all_results) = ListCount(a, AllToTest(to_test))
          /\ pc = "merge" =>
                /\ history' = MergedHistory(history, all_results)
                /\ pc' = "save_history"]_vars

\* Witness of C17: the second run has merged the results of two probes that
\* ran concurrently into the windows loaded from the store.
C17_Witness ==
    /\ pc = "save_history"
    /\ run = 2
    /\ Len(all_results) = 2
    /\ probes["A"].perf = 1 /\ probes["B"].perf = 1
    /\ good = <<"B">> /\ bad = <<"A">>
    /\ all_results[1].proxy = "A"
    /\ Len(history["A"]) = 2 /\ Len(history["B"]) = 2

(***************************************************************************)
(* C18: only Performance Stage outcomes enter the history                  *)
(***************************************************************************)
\* The proxies of the run that did not pass the Prescreen Stage.
DeadAtPrescreen == AllIps(lists) \ ToSet(AllToTest(to_test))

\* C18: the merge appends one entry per Performance Stage outcome and nothing
\* else: the window of a tested proxy ends with the entry of its outcome, the
\* window of every other proxy, one that failed the Prescreen Stage included,
\* is left as loaded, and the save leaves the stored rows of such a proxy as
\* they were.
C18_OnlyPerfOutcomes ==
    [][/\ pc = "merge" =>
            \A a \in Addr :
                IF TestedNow(a)
                THEN /\ appended'[a] =
                          Append(appended[a], <<ResultOf(a).sc, ResultOf(a).success>>)
                     /\ history'[a] =
                          DequeAppend(history[a], <<ResultOf(a).sc, ResultOf(a).success>>)
                ELSE /\ appended'[a] = appended[a]
                     /\ history'[a] = history[a]
       /\ (pc = "save_history" /\ history_file.exists) =>
            \A a \in Addr \ {all_results[i].proxy : i \in DOMAIN all_results} :
                history_file'.rows[a] = history_file.rows[a]]_vars

\* Witness of C18: "A" has a stored window and failed the Prescreen Stage of
\* this run, "B" was tested; after the merge the window of "A" is the stored
\* one and the window of "B" has its new entry.
C18_Witness ==
    /\ pc = "save_history"
    /\ "A" \in DeadAtPrescreen
    /\ TestedNow("B")
    /\ history_file.exists
    /\ history["A"] = DequeFill(history_file.rows["A"])
    /\ Len(history["A"]) = 9
    /\ Len(appended["B"]) = 11

(***************************************************************************)
(* C19: loading the history                                                *)
(***************************************************************************)
\* The store cannot be used: it is missing, or a row of it does not parse.
StoreUnusable == ~history_file.exists \/ ~Parsable(history_file)

\* C19 as claimed: load_history never fails the run: with a missing or a
\* damaged store (a Score that is not a number) it yields the empty mapping
\* and the pipeline goes on to the merge.
C19_Original ==
    /\ pc # "failed"
    /\ (pc = "merge" /\ StoreUnusable) => history = EmptyHistory

(***************************************************************************)
(* C20: replacing the history store                                        *)
(***************************************************************************)
Min(m, n) == IF m <= n THEN m ELSE n

\* The rows the store held when the run loaded it: the entries appended
\* before this run, the most recent HISTORY_MAX_RUNS of each proxy.
PreviousRows ==
    [a \in Addr |->
        LET log == IF TestedNow(a)
                   THEN SubSeq(appended[a], 1, Len(appended[a]) - 1)
                   ELSE appended[a]
            kept == LastN(log, Min(Len(log), HISTORY_MAX_RUNS))
        IN  [i \in DOMAIN kept |-> FormatRow(kept[i])]]

\* C20 as claimed: save_history replaces the store atomically: at every point
\* of the save, and after a kill between two of its writes, the store holds
\* either all the rows of the previous version or all the rows of the new
\* one, never none or a part of them.
C20_Original ==
    pc \in {"save_history", "save_write", "killed", "rows"} =>
        \/ history_file.rows = PreviousRows
        \/ history_file.rows = SavedHistory(history)

(***************************************************************************)
(* C21: a failure to write the history store                               *)
(***************************************************************************)
\* C21 as claimed: a failure of save_history does not abort the run: main is
\* never ended by it, and goes on to the score records, the detailed report
\* and the qualifying list.
C21_Original == pc # "save_failed"

(***************************************************************************)
(* C22: the score record of a tested proxy                                 *)
(***************************************************************************)
\* Sum of the scores of the entries of window w at the positions in S.
RECURSIVE ScoreSum(_, _)
ScoreSum(w, S) ==
    IF S = {} THEN 0
    ELSE LET i == CHOOSE j \in S : TRUE
         IN  w[i][1] + ScoreSum(w, S \ {i})

\* Two quotients <<numerator, denominator>> are the same number.
FracEq(x, y) == x[1] * y[2] = y[1] * x[2]

\* Positions of the succeeded entries of the window of a.
SucceededAt(a) == {i \in DOMAIN history[a] : history[a][i][2]}

\* C22: the row of every proxy tested in the run is computed from its window
\* after the merge (whose last entry is the outcome of the run): longTermScore
\* is the mean of the window's scores, responseRate the share of succeeded
\* entries (in percent), responseAvg the mean score of the succeeded entries,
\* and 0 when there is none.
C22_ScoreRecord ==
    RowsRanked =>
        \A i \in DOMAIN sorted_rows :
            LET row == sorted_rows[i]
                w == history[row.proxy]
                ok == SucceededAt(row.proxy)
            IN  /\ w # <<>>
                /\ w[Len(w)] = <<row.sc, ResultOf(row.proxy).success>>
                /\ row.sc = ResultOf(row.proxy).sc
                /\ FracEq(row.lt, <<ScoreSum(w, DOMAIN w), Len(w)>>)
                /\ FracEq(row.rr, <<100 * Cardinality(ok), Len(w)>>)
                /\ IF ok = {} THEN row.ra[1] = 0
                   ELSE FracEq(row.ra, <<ScoreSum(w, ok), Cardinality(ok)>>)

\* Witness of C22: "B" has a full window of nine failures and the success of
\* this run, "A" a window of ten failures.
C22_Witness ==
    /\ RowsRanked
    /\ Len(sorted_rows) = 2
    /\ sorted_rows[1].proxy = "B"
    /\ sorted_rows[1].lt = <<9900, 10>>
    /\ sorted_rows[1].rr = <<100, 10>>
    /\ sorted_rows[1].ra = <<9900, 1>>
    /\ sorted_rows[2].proxy = "A"
    /\ sorted_rows[2].lt = <<0, 10>>
    /\ sorted_rows[2].rr = <<0, 10>>
    /\ sorted_rows[2].ra = <<0, 1>>

(***************************************************************************)
(* C23: the current score                                                  *)
(***************************************************************************)
\* The results of the run, those of a run_tests call in progress included.
PerfResults == all_results \o (IF pc = "perf" THEN stage_out ELSE <<>>)

\* C23: the score of a successful probe is its throughput divided by its
\* latency plus 0.01 (to the thousandth the model keeps), so 5.0 MB/s at 1.0 s
\* scores 5.0/1.01 = 4.950; the score of a failed probe is 0 and it has no
\* latency and no throughput.
C23_CurrentScore ==
    \A i \in DOMAIN PerfResults :
        LET r == PerfResults[i]
        IN  IF r.success
            THEN /\ r.lat > 0
                 /\ r.sc * (r.lat + 10) <= r.spd * 1000
                 /\ r.spd * 1000 < (r.sc + 1) * (r.lat + 10)
                 /\ (r.spd = 5000 /\ r.lat = 1000) => r.sc = 4950
            ELSE /\ r.sc = 0
                 /\ r.lat = None
                 /\ r.spd = None

\* Witness of C23: one probe measured 5.0 MB/s at 1.0 s and scored 4.950,
\* another one failed.
C23_Witness ==
    /\ Len(PerfResults) = 2
    /\ \E i \in 1..2 :
          /\ PerfResults[i].success
          /\ PerfResults[i].spd = 5000
          /\ PerfResults[i].lat = 1000
          /\ PerfResults[i].sc = 4950
    /\ \E i \in 1..2 : ~PerfResults[i].success /\ PerfResults[i].sc = 0

(***************************************************************************)
(* C24: a run without any proxy                                            *)
(***************************************************************************)
\* A step that starts a run whose three lists are empty.
StartsEmptyRun == run' = run + 1 /\ files' = EmptyLists

\* C24: a run that loads no proxy at all ends at once, with main returning
\* and not raising: no request is issued, the history store is neither loaded
\* nor changed, and neither the detailed report nor the qualifying list is
\* written.
C24_NothingToDo ==
    [][StartsEmptyRun =>
          /\ pc' = "exit"
          /\ probes' = NoProbes
          /\ tasks' = IdleTasks
          /\ history' = EmptyHistory
          /\ history_file' = history_file
          /\ appended' = appended
          /\ all_results' = <<>>
          /\ sorted_rows' = <<>>
          /\ final_proxies' = <<>>
          /\ csv_file' = csv_file
          /\ mb_file' = mb_file]_vars

\* Witness of C24: the second run found the three lists empty and ended; the
\* files the first run wrote are as it left them.
C24_Witness ==
    /\ pc = "exit"
    /\ run = 2
    /\ files = EmptyLists
    /\ probes = NoProbes
    /\ history = EmptyHistory
    /\ mb_file = [exists |-> TRUE, lines |-> <<"A">>]
    /\ Len(history_file.rows["A"]) = 1

(***************************************************************************)
(* C25: a first run, end to end                                            *)
(***************************************************************************)
\* The run is over: "B" did not answer the prescreen, "A" was measured at
\* 10 MB/s with a latency of 1 s, the performance probe of "C" timed out.
FirstRunScenario ==
    /\ RunComplete
    /\ files = [http |-> <<"A", "B">>, socks5 |-> <<"A", "C">>, socks4 |-> <<>>]
    /\ "B" \notin ToSet(AllToTest(to_test))
    /\ good = <<"A">>
    /\ bad = <<"C">>
    /\ ResultOf("A").spd = 10000
    /\ ResultOf("A").lat = 1000

\* What the scenario leaves apart from the qualifying list: the deduplicated
\* lists, and one history entry for "A", one for "C" and none for "B".
FirstRunLeaves ==
    /\ lists.http = <<"B">>
    /\ ToSet(lists.socks5) = {"A", "C"}
    /\ Len(lists.socks5) = 2
    /\ lists.socks4 = <<>>
    /\ appended = [a \in Addr |->
                     CASE a = "A" -> <<<<9900, TRUE>>>>
                       [] a = "B" -> <<>>
                       [] a = "C" -> <<<<0, FALSE>>>>]
    /\ history_file.rows = [a \in Addr |->
                     CASE a = "A" -> <<<<9900, "1">>>>
                       [] a = "B" -> <<>>
                       [] a = "C" -> <<<<0, "0">>>>]

\* C25 as claimed: in the scenario the deduplication gives http = [B] and
\* socks5 = [A, C], the history gains one entry for A and one for C and none
\* for B, and the output is exactly [socks5://A], a protocol-qualified address.
C25_Original ==
    FirstRunScenario =>
        /\ FirstRunLeaves
        /\ mb_file.lines = <<"socks5" \o "://" \o "A">>

\* C25, amended: the same, and the output is exactly [A]: the bare address,
\* without the protocol it was tested under.
C25_EndToEnd ==
    FirstRunScenario =>
        /\ FirstRunLeaves
        /\ final_proxies = <<<<"A", 9900>>>>
        /\ mb_proxies_count = 1
        /\ mb_file = [exists |-> TRUE, lines |-> <<"A">>]

\* Witness of C25: the scenario has happened, with "C" tested before "A".
C25_Witness ==
    /\ FirstRunScenario
    /\ all_results[1].proxy = "C"
    /\ all_results[2].scheme = "socks5"
    /\ mb_file.lines = <<"A">>

(***************************************************************************)
(* C26: the stages run strictly forward                                    *)
(***************************************************************************)
\* A step that computes rows, selects, or writes a report.
ScoresOrSelects ==
    /\ pc # "exit"
    /\ \/ sorted_rows' # sorted_rows
       \/ final_proxies' # final_proxies
       \/ csv_file' # csv_file
       \/ mb_file' # mb_file

\* C26: a prescreen request is issued only once remove_duplicates has
\* returned its lists; a performance request, of whatever protocol, only once
\* every proxy of the three lists has had its prescreen request and the three
\* prescreen calls have returned; rows, selection and reports are made only
\* once every performance probe has its result and the results are merged
\* into the history.
C26_StrictlyForward ==
    [][/\ \A a \in Addr :
            probes'[a].pre > probes[a].pre =>
                /\ pc = "prescreen"
                /\ remaining = {}
                /\ lists = final
                /\ a \in AllIps(lists)
       /\ \A a \in Addr :
            probes'[a].perf > probes[a].perf =>
                /\ pc = "perf"
                /\ \A b \in AllIps(lists) : probes[b].pre = 1
                /\ \A p \in SchemeSet : ToSet(to_test[p]) \subseteq ToSet(lists[p])
       /\ ScoresOrSelects =>
                /\ pc \in {"rows", "csv", "save_mb"}
                /\ \A a \in Addr :
                      probes[a].perf = ListCount(a, AllToTest(to_test))
                /\ \A i \in DOMAIN all_results :
                      LET w == history[all_results[i].proxy]
                      IN  /\ w # <<>>
                          /\ w[Len(w)] = <<all_results[i].sc, all_results[i].success>>]_vars

\* Witness of C26: a run on two lists went through every stage: the three
\* proxies were prescreened, two of them tested, and the list written.
C26_Witness ==
    /\ RunComplete
    /\ lists.http = <<"B">>
    /\ Len(lists.socks5) = 2
    /\ \A a \in Addr : probes[a].pre = 1
    /\ probes["B"].perf = 1
    /\ probes["A"].perf = 1
    /\ probes["C"].perf = 0
    /\ Len(sorted_rows) = 2
    /\ mb_proxies_count = 2

(***************************************************************************)
(* C27: the Performance Stage probes prescreen survivors only              *)
(***************************************************************************)
\* C27: a list handed to run_tests is what the prescreen call of the same
\* protocol returned in this run, the proxies of the deduplicated list of
\* that protocol that answered 200; a performance request is issued only for
\* a proxy of that list, and its result carries that protocol.
C27_SurvivorsOnly ==
    [][/\ (pc = "prescreen" /\ to_test' # to_test) =>
            /\ to_test' = [to_test EXCEPT ![Scheme] = stage_out]
            /\ ToSet(stage_out) = Answered200(lists[Scheme])
       /\ (pc = "perf" /\ pc' # "exit") => to_test' = to_test
       /\ \A a \in Addr :
            probes'[a].perf > probes[a].perf =>
                /\ a \in ToSet(to_test[Scheme])
                /\ a \in ToSet(lists[Scheme])
                /\ probes[a].pre = 1
       /\ (pc = "perf" /\ Len(stage_out') > Len(stage_out)) =>
            LET r == stage_out'[Len(stage_out')]
            IN  /\ r.scheme = Scheme
                /\ r.proxy \in ToSet(to_test[Scheme])]_vars

\* Witness of C27: "A", listed under http and socks5 and kept under socks5,
\* answered the prescreen and is being tested under socks5; "C", of the same
\* list, did not answer and is not tested.
C27_Witness ==
    /\ pc = "perf"
    /\ Scheme = "socks5"
    /\ files.http = <<"A", "B">>
    /\ ToSet(lists.socks5) = {"A", "C"}
    /\ to_test.socks5 = <<"A">>
    /\ tasks = [a \in Addr |-> IF a = "A" THEN "holding" ELSE "idle"]
    /\ probes["A"] = [pre |-> 1, perf |-> 1]
    /\ probes["C"] = [pre |-> 1, perf |-> 0]

(***************************************************************************)
(* C28: no probe starves at a gate                                         *)
(***************************************************************************)
\* C28: with a fair scheduler and requests that end by their timeout, no
\* probe waits at a gate for ever and the only way out of the wait is the
\* admission, no admitted probe stays in flight for ever and the only way out
\* is its completion, and no call of a stage stays unjoined or unreturned for
\* ever, even with more proxies than slots.
C28_NoStarvation ==
    /\ \A a \in Addr : []<>(tasks[a] # "waiting")
    /\ \A a \in Addr : []<>(tasks[a] # "holding")
    /\ []<>(~started)
    /\ [][\A a \in Addr :
            /\ (tasks[a] = "waiting" /\ tasks'[a] # "waiting") =>
                    tasks'[a] = "holding"
            /\ (tasks[a] = "holding" /\ tasks'[a] # "holding") =>
                    tasks'[a] = "done"
            /\ (started /\ ~started') => AllJoined]_vars

\* Witness of C28: the performance gate is full and the third probe waits
\* for a slot; the two admitted ones have not ended.
C28_Witness ==
    /\ pc = "perf"
    /\ sem = 0
    /\ CONCURRENT_LIMIT < Len(to_test.http)
    /\ tasks["C"] = "waiting"
    /\ tasks["A"] = "holding"
    /\ tasks["B"] = "holding"
    /\ stage_out = <<>>

(***************************************************************************)
(* C29: the timestamp of a history entry                                   *)
(***************************************************************************)
\* The step in which a run rewrites an existing store.
StoreRewritten == pc = "save_history" /\ pc' = "rows" /\ history_file.exists

\* Number of rows of a the rewritten store carries over from the old one.
CarriedOver(a) ==
    Len(history_file'.rows[a]) - (IF TestedNow(a) THEN 1 ELSE 0)

\* C29 as claimed: an entry keeps the timestamp of the run that appended it:
\* when a later run saves the store, every row carried over from the old
\* store has the timestamp it had, and only the row of this run's outcome is
\* stamped with this run's time.
C29_Original ==
    [][StoreRewritten =>
          \A a \in Addr :
              LET old == history_file.stamps[a]
                  new == history_file'.stamps[a]
              IN  /\ \A i \in 1..CarriedOver(a) :
                        new[CarriedOver(a) - i + 1] = old[Len(old) - i + 1]
                  /\ TestedNow(a) => new[Len(new)] = run]_vars

(***************************************************************************)
(* C30: what load_history retains                                          *)
(***************************************************************************)
\* C30: the mapping load_history returns holds, for every address, the most
\* recent W rows of that address (the last W in the store, which is written
\* oldest first), all of them when there are at most W, whatever their
\* number; a missing store gives no entry.
C30_LastRowsRetained ==
    pc = "merge" =>
        \A a \in Addr :
            LET rows == history_file.rows[a]
                n == Min(Len(rows), HISTORY_MAX_RUNS)
            IN  /\ Len(history[a]) = n
                /\ \A i \in 1..n :
                      history[a][i] =
                          <<rows[Len(rows) - n + i][1],
                            rows[Len(rows) - n + i][2] = "1">>

\* Witness of C30: the store had twelve rows for "A", eleven for "C" and
\* none for "B"; the loaded windows hold the last ten of each.
C30_Witness ==
    /\ pc = "merge"
    /\ Len(history_file.rows["A"]) = 12
    /\ Len(history["A"]) = HISTORY_MAX_RUNS
    /\ history["A"][1] = <<30, TRUE>>
    /\ history["A"][10] = <<120, TRUE>>
    /\ Len(history_file.rows["C"]) = 11
    /\ Len(history["C"]) = HISTORY_MAX_RUNS
    /\ history["B"] = <<>>

(***************************************************************************)
(* try_proxy: the read loop of one performance probe, byte by byte         *)
(* (lines 96-100).  The response is the one of a server that honours the   *)
(* Range header (10 MiB), of one that ignores it (the whole 100 MB file),  *)
(* or a shorter one.  Every read ends, by data, by the end of the body or  *)
(* by the timeout of the session, so a step that stays possible is taken.  *)
(***************************************************************************)
\* iter_chunked(65536): the largest chunk, in bytes.
ChunkSize == 65536

\* 10 * 1024 * 1024, the number of bytes after which the loop breaks.
Budget == 10485760

\* Lengths of a chunk: iter_chunked yields what has arrived, at most
\* ChunkSize bytes.
ChunkLens == {32768, ChunkSize - 1, ChunkSize}

\* Lengths of the body the server sends: nothing, less than the budget, the
\* range asked for, the whole file.
ContentLengths == {0, 100000, Budget, 10 * Budget}

\* A loop that breaks only once the total is above the budget.
BudgetReachedStrictly(t) == t > Budget

\* Line 99: total >= 10 * 1024 * 1024
BudgetReached(t) == t >= Budget

\* Lines 93-96: the status is 200 or 206 and the count starts at zero.
ReadBegin(length) ==
    /\ reading = "none"
    /\ read_total' = 0
    /\ content' = length
    /\ reading' = "iter"
    /\ UNCHANGED <<pipelineVars, dbVars>>

\* Lines 97-100: the next chunk, of at most n bytes, is counted; the loop
\* breaks when the count has reached the budget.
ReadChunk(n) ==
    /\ reading = "iter"
    /\ content > 0
    /\ LET len == IF n <= content THEN n ELSE content
       IN  /\ read_total' = read_total + len
           /\ content' = content - len
    /\ reading' = IF BudgetReached(read_total') THEN "done" ELSE "iter"
    /\ UNCHANGED <<pipelineVars, dbVars>>

\* Line 97: the body has ended, the iteration stops.
ReadExhausted ==
    /\ reading = "iter"
    /\ content = 0
    /\ reading' = "done"
    /\ UNCHANGED <<pipelineVars, dbVars, read_total, content>>

\* Lines 97 and 107-109: the read raises (connection lost, timeout); the
\* probe fails and the count is dropped.
ReadRaises ==
    /\ reading = "iter"
    /\ reading' = "raised"
    /\ UNCHANGED <<pipelineVars, dbVars, read_total, content>>

NextRead ==
    \/ \E length \in ContentLengths : ReadBegin(length)
    \/ \E n \in ChunkLens : ReadChunk(n)
    \/ ReadExhausted
    \/ ReadRaises

SpecRead == InitFirstRun /\ [][NextRead]_vars /\ WF_vars(NextRead)

(***************************************************************************)
(* C31: the read loop stops at the budget                                  *)
(***************************************************************************)
\* C31: the loop of a performance probe reads on only while the bytes counted
\* are below the budget of 10 MiB and ends at the first chunk that brings the
\* count to the budget or above, so the count never exceeds the budget by a
\* full chunk (65536 bytes) or more; and the loop terminates.
C31_ReadStopsAtBudget ==
    /\ [](/\ reading = "iter" => read_total < Budget
          /\ read_total < Budget + ChunkSize)
    /\ [][(reading = "iter" /\ read_total' # read_total) =>
             /\ read_total' > read_total
             /\ read_total' - read_total <= ChunkSize
             /\ reading' = IF read_total' >= Budget THEN "done" ELSE "iter"]_vars
    /\ <>(reading \in {"done", "raised"})

\* Witness of C31: the count stood one byte below the budget when a full
\* chunk arrived, and the loop has ended.
C31_Witness ==
    /\ reading = "done"
    /\ read_total = Budget + ChunkSize - 1
    /\ content > 0

(***************************************************************************)
(* C32: remove_duplicates leaves its arguments alone                       *)
(***************************************************************************)
\* remove_duplicates is running (its arguments are main's three lists, which
\* hold what load_proxies returned; main rebinds its names at the return).
InRemoveDuplicates == pc \in {"dedup", "dedup_loop"}

\* C32: remove_duplicates does not mutate its three input lists: at every
\* point of the call, its last one included, each input holds the elements it
\* was given, in the same order, and no step of the call changes one.
C32_InputsNotMutated ==
    /\ [](InRemoveDuplicates => lists = files)
    /\ [][InRemoveDuplicates =>
             /\ files' = files
             /\ pc' \in {"dedup", "dedup_loop"} => lists' = lists
             /\ pc' = "prescreen" => lists' = final]_vars

\* Witness of C32: the loop has run over every address; the inputs still hold
\* an address twice in one list and in two lists, and the outputs do not.
C32_Witness ==
    /\ pc = "dedup_loop"
    /\ remaining = {}
    /\ lists = files
    /\ \E a \in Addr :
        /\ ListCount(a, lists.http) = 2
        /\ a \in ToSet(lists.socks5)
        /\ ListCount(a, final.socks5) = 1
        /\ a \notin ToSet(final.http)

(***************************************************************************)
(* C33: the buckets do not depend on the order of iteration                *)
(***************************************************************************)
Priority == <<"socks5", "http", "socks4">>

\* The protocol an address of the inputs belongs to: the first protocol, in
\* the order of priority, whose input lists it.
BucketOf(a) ==
    Priority[CHOOSE i \in 1..3 :
                /\ a \in ToSet(files[Priority[i]])
                /\ \A j \in 1..(i - 1) : a \notin ToSet(files[Priority[j]])]

\* The addresses the loop has iterated over so far.
Iterated ==
    IF pc = "dedup" THEN {}
    ELSE IF pc = "dedup_loop" THEN AllIps(files) \ remaining
    ELSE AllIps(files)

\* C33: remove_duplicates is deterministic: the set all_ips is iterated in
\* any order, and at every point of the loop and after it the bucket of each
\* address iterated so far is fixed by the three inputs alone, so identical
\* inputs give identical buckets whatever the order of iteration.
C33_OrderIndependent ==
    (run > 0 /\ pc \in {"dedup", "dedup_loop", "prescreen"}) =>
        LET out == IF pc = "prescreen" THEN lists
                   ELSE IF pc = "dedup_loop" THEN final ELSE EmptyLists
        IN  \A p \in SchemeSet :
                ToSet(out[p]) = {a \in Iterated : BucketOf(a) = p}

\* Witness of C33: the loop took the addresses in another order than the
\* inputs list them: socks5 was given "A" before "C" and returns "C" before
\* "A", "A" being a duplicate.
C33_Witness ==
    /\ DedupDone
    /\ files.socks5 = <<"A", "C">>
    /\ "A" \in ToSet(files.http)
    /\ lists.socks5 = <<"C", "A">>

(***************************************************************************)
(* C34: no tested endpoint has an empty window after the merge             *)
(***************************************************************************)
\* The rows of main have been computed.
RowsComputed == pc \in {"csv", "save_mb"} \/ RunComplete

\* C34: after the merge every endpoint of the run's performance results has
\* a window of at least one entry, the last one being its outcome of this run
\* (score, success); so its longTermScore and responseRate are quotients over
\* the length of the window, and the values kept for an empty window (the
\* current score, 100 or 0) are never the ones used.
C34_WindowNeverEmpty ==
    /\ WindowsMerged =>
          \A i \in DOMAIN all_results :
              LET r == all_results[i]
              IN  /\ Len(history[r.proxy]) >= 1
                  /\ history[r.proxy][Len(history[r.proxy])] = <<r.sc, r.success>>
    /\ RowsComputed =>
          \A i \in DOMAIN sorted_rows :
              LET row == sorted_rows[i]
                  w == history[row.proxy]
              IN  /\ w # <<>>
                  /\ row.lt = <<SumScores(w), Len(w)>>
                  /\ row.rr = <<100 * Len(Succeeded(w)), Len(w)>>

\* Witness of C34: a first run without a store: the window of a proxy that
\* failed holds its failure alone, the one of a proxy that succeeded its
\* success alone, and the rows are computed from them.
C34_Witness ==
    /\ pc = "csv"
    /\ run = 1
    /\ Len(sorted_rows) = 2
    /\ \E a, b \in Addr :
        /\ TestedNow(a) /\ ~ResultOf(a).success
        /\ history[a] = <<<<0, FALSE>>>>
        /\ TestedNow(b) /\ ResultOf(b).success
        /\ history[b] = <<<<ResultOf(b).sc, TRUE>>>>
        /\ sorted_rows[1].proxy = b
        /\ sorted_rows[2].rr = <<0, 1>>

(***************************************************************************)
(* C35: the windows of the addresses the run did not test                  *)
(***************************************************************************)
\* The success flags of a window, in order, as the store writes them.
FlagsOf(w) == [i \in DOMAIN w |-> IF w[i][2] THEN "1" ELSE "0"]

\* The Success column of the stored rows of one address.
StoredFlags(rows) == [i \in DOMAIN rows |-> rows[i][2]]

\* C35: the merge changes only the windows of the addresses that have an
\* outcome in the performance results of the run.  The window of every other
\* address is, from the load to the end of the run, the one loaded from the
\* store, and the store save_history writes holds it: as many rows, with the
\* same success flags in the same order.
C35_OthersUntouched ==
    [][/\ pc \in {"merge", "save_history", "rows", "csv", "save_mb"} =>
            \A a \in Addr : ~TestedNow(a) => history'[a] = history[a]
       /\ pc \in {"save_history", "rows", "csv", "save_mb"} =>
            history' = history
       /\ (pc = "save_history" /\ pc' = "rows") =>
            \A a \in Addr :
                ~TestedNow(a) =>
                    /\ Len(history_file'.rows[a]) = Len(history[a])
                    /\ StoredFlags(history_file'.rows[a]) = FlagsOf(history[a])]_vars

\* Witness of C35: "A", with twelve rows in the store, did not pass the
\* Prescreen Stage; another proxy was tested; the store written by the run
\* holds the ten rows of the window loaded for "A", every third a success.
C35_Witness ==
    /\ pc = "rows"
    /\ ~TestedNow("A")
    /\ all_results # <<>>
    /\ Len(appended["A"]) = 12
    /\ Len(history["A"]) = HISTORY_MAX_RUNS
    /\ StoredFlags(history_file.rows["A"]) =
          <<"1", "0", "0", "1", "0", "0", "1", "0", "0", "1">>
    /\ \E b \in Addr : TestedNow(b) /\ Len(history_file.rows[b]) = 1

(***************************************************************************)
(* C36: saving the store and loading it again                              *)
(***************************************************************************)
\* The file save_history writes for the mapping h.
WrittenFile(h) ==
    [exists |-> TRUE, rows |-> SavedHistory(h), stamps |-> SavedStamps(h, run)]

\* load_history applied to what save_history writes for h.
RoundTrip(h) == LoadedHistory(WrittenFile(h))

\* r is s rounded to two decimals: a number of hundredths nearest to s.
IsRounded2(r, s) ==
    /\ r % 10 = 0
    /\ r - s <= 5
    /\ s - r <= 5

\* C36: load_history applied to what save_history wrote returns, for every
\* address with an entry, as many entries, with the same success flags in the
\* same order and each score the saved one rounded to two decimals; saving
\* and loading once more changes neither the rows nor the entries.
C36_RoundTrip ==
    pc = "rows" =>
        LET once == RoundTrip(history)
            twice == RoundTrip(once)
        IN  /\ history_file = WrittenFile(history)
            /\ \A a \in Addr :
                  history[a] # <<>> =>
                      /\ Len(once[a]) = Len(history[a])
                      /\ \A i \in DOMAIN history[a] :
                            /\ once[a][i][2] = history[a][i][2]
                            /\ IsRounded2(once[a][i][1], history[a][i][1])
            /\ twice = once
            /\ SavedHistory(once) = history_file.rows

\* Witness of C36: a full window was saved whose last score, 153.846, is not
\* a number of hundredths; the store holds 153.85 for it.
C36_Witness ==
    /\ pc = "rows"
    /\ \E a \in Addr :
        /\ Len(history[a]) = HISTORY_MAX_RUNS
        /\ history[a][HISTORY_MAX_RUNS] = <<153846, TRUE>>
        /\ ~history[a][1][2]
        /\ history_file.rows[a][HISTORY_MAX_RUNS] = <<153850, "1">>
        /\ RoundTrip(history)[a] # history[a]

(***************************************************************************)
(* C37: a run in which no proxy answers the prescreen                      *)
(***************************************************************************)
\* main is at or before the end of the Prescreen Stage.
UpToPrescreen == pc \in {"exit", "dedup", "dedup_loop", "prescreen"}

\* The third prescreen call returns and no call has kept a proxy.
NoneResponsive ==
    /\ pc = "prescreen" /\ si = 3 /\ started /\ AllJoined
    /\ AllToTest(to_test') = <<>>
    /\ started' = FALSE

\* C37: when the Prescreen Stage leaves no responsive endpoint the run ends
\* there.  Up to the end of the stage no performance request is issued, the
\* history store is neither loaded nor written and the report and the
\* qualifying list are as the earlier run left them; with no responsive
\* endpoint main returns, and no later stage is ever entered without one.
C37_EndsAtPrescreen ==
    /\ [](~UpToPrescreen => AllToTest(to_test) # <<>>)
    /\ [][/\ UpToPrescreen =>
               /\ history' = EmptyHistory
               /\ history_file' = history_file
               /\ appended' = appended
               /\ csv_file' = csv_file
               /\ mb_file' = mb_file
               /\ all_results' = <<>>
               /\ \A a \in Addr : probes'[a].perf = 0
          /\ NoneResponsive => pc' = "exit"]_vars

\* Witness of C37: in the second run the two proxies were prescreened and
\* neither answered; the store, the report and the list of the first run are
\* on disk.
C37_Witness ==
    /\ pc = "exit"
    /\ run = 2
    /\ AllIps(lists) = {"A", "B"}
    /\ AllToTest(to_test) = <<>>
    /\ probes = [a \in Addr |->
                    [pre |-> IF a \in {"A", "B"} THEN 1 ELSE 0, perf |-> 0]]
    /\ history = EmptyHistory
    /\ history_file.rows["A"] = <<<<9900, "1">>>>
    /\ history_file.stamps["A"] = <<1>>
    /\ csv_file.rows = <<<<"A", "socks5">>>>
    /\ mb_file.lines = <<"A">>

(***************************************************************************)
(* C38: a run in which no endpoint qualifies                               *)
(***************************************************************************)
\* save_mb_proxies is about to run and no endpoint of the run meets the
\* qualification filter.
NoneQualifies == pc = "save_mb" /\ \A a \in Addr : ~MeetsFilter(a)

\* C38: when no endpoint of the run meets the qualification filter,
\* save_mb_proxies returns 0 and does not write the qualifying list: the file
\* stays as an earlier run left it, or absent.  The history store and the
\* detailed report of the run are written by then: the store holds the
\* windows after the merge, the report one line per result of the run.
C38_ListLeftAlone ==
    [][NoneQualifies =>
          /\ pc' = "exit"
          /\ mb_proxies_count' = 0
          /\ final_proxies' = <<>>
          /\ mb_file' = mb_file
          /\ history_file' = history_file
          /\ history_file.exists
          /\ history_file.rows = SavedHistory(history)
          /\ \A a \in Addr : TestedNow(a) =>
                history_file.stamps[a][Len(history_file.stamps[a])] = run
          /\ csv_file' = csv_file
          /\ csv_file.exists
          /\ Len(csv_file.rows) = Len(all_results)
          /\ \A i \in DOMAIN all_results :
                \E j \in DOMAIN csv_file.rows :
                    csv_file.rows[j] = <<all_results[i].proxy, all_results[i].scheme>>]_vars

\* Witness of C38: the first run listed "A"; in the second run "A" was tested
\* under another protocol and failed, nothing qualified, and the list still
\* holds "A" while the store and the report are those of the second run.
C38_Witness ==
    /\ pc = "exit"
    /\ run = 2
    /\ mb_proxies_count = 0
    /\ all_results # <<>>
    /\ \A a \in Addr : ~MeetsFilter(a)
    /\ mb_file = [exists |-> TRUE, lines |-> <<"A">>]
    /\ history_file.rows["A"] = <<<<9900, "1">>, <<0, "0">>>>
    /\ history_file.stamps["A"] = <<2, 2>>
    /\ csv_file.rows = <<<<"A", "http">>>>

(***************************************************************************)
(* checkproxy_fixed: ProxyDatabase.update_proxy and the bound_check tasks  *)
(* of run_fixed_checker (src/checkproxy_fixed.py).  Speeds are thousandths *)
(* of a Mbps, response times milliseconds, scores thousandths; a time is   *)
(* the number of the update_proxy call; reliability_rate is kept as the    *)
(* quotient <<numerator, denominator>> the code divides.                   *)
(***************************************************************************)
\* workers (200 by default), scaled so that the semaphore fills.
Workers == 2

\* Line 184 and lines 218-220: the ProxyResult test_proxy returns.
ProxyResult(proxy, outcome) ==
    [protocol |-> proxy.protocol, address |-> proxy.address,
     is_working |-> outcome.is_working,
     response_time |-> outcome.response_time,
     speed_mbps |-> outcome.speed_mbps]

\* What test_proxy can measure: a failure (the defaults of ProxyResult), or
\* a success at 40 Mbps in 0.5 s or at 10 Mbps in 1.5 s.
FixedOutcomes ==
    {[is_working |-> FALSE, response_time |-> 0, speed_mbps |-> 0],
     [is_working |-> TRUE, response_time |-> 500, speed_mbps |-> 40000],
     [is_working |-> TRUE, response_time |-> 1500, speed_mbps |-> 10000]}

\* The proxies load_proxies returns: "A" is listed under two protocols.
FixedProxies ==
    {<<[protocol |-> "http", address |-> "A"],
       [protocol |-> "http", address |-> "B"],
       [protocol |-> "socks5", address |-> "A"]>>}

MinOf(x, y) == IF x <= y THEN x ELSE y

MaxOf(x, y) == IF x >= y THEN x ELSE y

\* An update that refreshes the reliability rate only when the proxy worked.
CountedStaleRate(h, result, now) ==
    LET old == h[result.address]
        n == old.successful_tests + 1
    IN  IF ~old.present
        THEN [h EXCEPT ![result.address] =
                [present |-> TRUE, protocol |-> result.protocol,
                 first_seen |-> now, last_seen |-> now,
                 total_tests |-> 1,
                 successful_tests |-> IF result.is_working THEN 1 ELSE 0,
                 avg_speed_mbps |->
                    IF result.is_working THEN result.speed_mbps ELSE 0,
                 avg_response_time |->
                    IF result.is_working THEN result.response_time ELSE 0,
                 best_speed_mbps |->
                    IF result.is_working THEN result.speed_mbps ELSE 0,
                 worst_speed_mbps |->
                    IF result.is_working THEN result.speed_mbps ELSE Infinity,
                 long_term_score |-> 0,
                 reliability_rate |->
                    IF result.is_working THEN <<1, 1>> ELSE <<0, 1>>]]
        ELSE IF result.is_working
        THEN [h EXCEPT ![result.address] =
                [old EXCEPT
                    !.last_seen = now,
                    !.total_tests = @ + 1,
                    !.successful_tests = n,
                    !.avg_speed_mbps =
                        (@ * (n - 1) + result.speed_mbps) \div n,
                    !.avg_response_time =
                        (@ * (n - 1) + result.response_time) \div n,
                    !.best_speed_mbps = MaxOf(@, result.speed_mbps),
                    !.worst_speed_mbps =
                        IF @ = Infinity THEN result.speed_mbps
                        ELSE MinOf(@, result.speed_mbps),
                    !.reliability_rate = <<n, old.total_tests + 1>>]]
        ELSE [h EXCEPT ![result.address] =
                [old EXCEPT
                    !.last_seen = now,
                    !.total_tests = @ + 1]]

\* Lines 98-138: the record of the address is created, or its counts, its
\* averages over the successful tests, its best and worst speed and its
\* reliability rate are updated.
Counted(h, result, now) ==
    LET old == h[result.address]
        n == old.successful_tests + 1
    IN  IF ~old.present
        THEN [h EXCEPT ![result.address] =
                [present |-> TRUE, protocol |-> result.protocol,
                 first_seen |-> now, last_seen |-> now,
                 total_tests |-> 1,
                 successful_tests |-> IF result.is_working THEN 1 ELSE 0,
                 avg_speed_mbps |->
                    IF result.is_working THEN result.speed_mbps ELSE 0,
                 avg_response_time |->
                    IF result.is_working THEN result.response_time ELSE 0,
                 best_speed_mbps |->
                    IF result.is_working THEN result.speed_mbps ELSE 0,
                 worst_speed_mbps |->
                    IF result.is_working THEN result.speed_mbps ELSE Infinity,
                 long_term_score |-> 0,
                 reliability_rate |->
                    IF result.is_working THEN <<1, 1>> ELSE <<0, 1>>]]
        ELSE IF result.is_working
        THEN [h EXCEPT ![result.address] =
                [old EXCEPT
                    !.last_seen = now,
                    !.total_tests = @ + 1,
                    !.successful_tests = n,
                    !.avg_speed_mbps =
                        (@ * (n - 1) + result.speed_mbps) \div n,
                    !.avg_response_time =
                        (@ * (n - 1) + result.response_time) \div n,
                    !.best_speed_mbps = MaxOf(@, result.speed_mbps),
                    !.worst_speed_mbps =
                        IF @ = Infinity THEN result.speed_mbps
                        ELSE MinOf(@, result.speed_mbps),
                    !.reliability_rate = <<n, old.total_tests + 1>>]]
        ELSE [h EXCEPT ![result.address] =
                [old EXCEPT
                    !.last_seen = now,
                    !.total_tests = @ + 1,
                    !.reliability_rate =
                        <<old.successful_tests, old.total_tests + 1>>]]

\* Lines 141-152: the long-term score of a record with a successful test.
LongTermScored(h, address) ==
    LET proxy == h[address]
        speed_score == MinOf(100000, 2 * proxy.avg_speed_mbps)
        latency_score == MaxOf(0, 100000 - 50 * proxy.avg_response_time)
    IN  IF proxy.present /\ proxy.successful_tests > 0
        THEN [h EXCEPT ![address].long_term_score =
                (((7 * speed_score + 3 * latency_score) \div 10)
                    * proxy.reliability_rate[1]) \div proxy.reliability_rate[2]]
        ELSE h

\* ProxyDatabase.update_proxy(result), called at time now.
UpdateProxy(h, result, now) ==
    LongTermScored(Counted(h, result, now), result.address)

\* The mapping after the calls of a log, from the empty mapping.
RECURSIVE AfterCalls(_)
AfterCalls(log) ==
    IF log = <<>> THEN [a \in Addr |-> NoRecord]
    ELSE UpdateProxy(AfterCalls(SubSeq(log, 1, Len(log) - 1)),
                     log[Len(log)], Len(log))

\* The update_proxy calls of earlier runs, whose mapping proxy_history.json
\* holds: none, or three tests of "A" of which the second worked.
EarlierCalls ==
    {<<>>,
     <<[protocol |-> "http", address |-> "A", is_working |-> FALSE,
        response_time |-> 0, speed_mbps |-> 0],
       [protocol |-> "http", address |-> "A", is_working |-> TRUE,
        response_time |-> 500, speed_mbps |-> 40000],
       [protocol |-> "http", address |-> "A", is_working |-> FALSE,
        response_time |-> 0, speed_mbps |-> 0]>>}

\* Lines 241-259: the proxies are loaded (with none of them the function
\* returns), the database is loaded from its file, and one bound_check task
\* per proxy is handed to gather.  The shuffle only changes the order in
\* which the tasks reach the semaphore, which no order is assumed of here.
FixedStart(ps) ==
    /\ proxies = <<>>
    /\ ps # <<>>
    /\ proxies' = ps
    /\ checks' = [i \in DOMAIN ps |-> "waiting"]
    /\ semaphore' = Workers
    /\ working' = <<>>
    /\ UNCHANGED <<pipelineVars, readVars, db_history, calls>>

\* Lines 277-278: the task enters `async with semaphore` and awaits
\* test_proxy.
BoundCheckAcquire(i) ==
    /\ i \in DOMAIN checks
    /\ checks[i] = "waiting"
    /\ semaphore > 0
    /\ semaphore' = semaphore - 1
    /\ checks' = [checks EXCEPT ![i] = "testing"]
    /\ UNCHANGED <<pipelineVars, readVars, db_history, proxies, working, calls>>

\* Lines 278-288: test_proxy returns its result; the task updates the
\* database, keeps a working result and leaves the block, with no await in
\* between.
BoundCheckFinish(i, outcome) ==
    /\ i \in DOMAIN checks
    /\ checks[i] = "testing"
    /\ LET result == ProxyResult(proxies[i], outcome)
       IN  /\ db_history' = UpdateProxy(db_history, result, Len(calls) + 1)
           /\ calls' = Append(calls, result)
           /\ working' = IF result.is_working
                         THEN Append(working, result) ELSE working
    /\ semaphore' = semaphore + 1
    /\ checks' = [checks EXCEPT ![i] = "done"]
    /\ UNCHANGED <<pipelineVars, readVars, proxies>>

\* The state run_fixed_checker starts from: the mapping load_history of the
\* database returns is the one the earlier calls left.
InitFixed ==
    /\ PipelineAt({[history |-> NoHistoryFile, csv |-> NoCsvFile]})
    /\ ReadIdle
    /\ \E log \in EarlierCalls :
        /\ calls = log
        /\ db_history = AfterCalls(log)
    /\ proxies = <<>>
    /\ checks = <<>>
    /\ semaphore = 0
    /\ working = <<>>

NextFixed ==
    \/ \E ps \in FixedProxies : FixedStart(ps)
    \/ \E i \in 1..3 : BoundCheckAcquire(i)
    \/ \E i \in 1..3, outcome \in FixedOutcomes : BoundCheckFinish(i, outcome)

SpecFixed == InitFixed /\ [][NextFixed]_vars

(***************************************************************************)
(* C39: the counts of a record of the database                             *)
(***************************************************************************)
\* Number of the calls of the log for address a that satisfy `working`.
CallsFor(a) == {i \in DOMAIN calls : calls[i].address = a}

WorkingCallsFor(a) == {i \in CallsFor(a) : calls[i].is_working}

\* C39: after any sequence of update_proxy calls, made by concurrently
\* running tasks or not, every record has 0 <= successful_tests <=
\* total_tests, total_tests >= 1 and reliability_rate = successful_tests /
\* total_tests, and there is a record exactly for the addresses a call was
\* made for.  Each call increases total_tests of the address of its result by
\* exactly 1 (from none to 1 for a new address), successful_tests by 1
\* exactly when the result is working, and leaves every other record as it
\* was; nothing else changes a record.
C39_CountsConsistent ==
    /\ [](\A a \in Addr :
            LET rec == db_history[a]
            IN  /\ rec.present <=> CallsFor(a) # {}
                /\ rec.present =>
                      /\ 0 <= rec.successful_tests
                      /\ rec.successful_tests <= rec.total_tests
                      /\ rec.total_tests >= 1
                      /\ rec.reliability_rate[2] > 0
                      /\ rec.reliability_rate[1] * rec.total_tests
                            = rec.successful_tests * rec.reliability_rate[2]
                      /\ rec.total_tests = Cardinality(CallsFor(a))
                      /\ rec.successful_tests = Cardinality(WorkingCallsFor(a)))
    /\ [][/\ db_history' # db_history => Len(calls') = Len(calls) + 1
          /\ calls' # calls =>
                LET result == calls'[Len(calls')]
                    old == db_history[result.address]
                    new == db_history'[result.address]
                IN  /\ calls' = Append(calls, result)
                    /\ new.present
                    /\ new.total_tests = old.total_tests + 1
                    /\ new.successful_tests =
                          old.successful_tests
                              + (IF result.is_working THEN 1 ELSE 0)
                    /\ \A b \in Addr \ {result.address} :
                          db_history'[b] = db_history[b]]_vars

\* Witness of C39: "A" had three tests, one of them successful, before the
\* run; the probe of "A" under http has worked and updated its record while
\* the probe of "A" under socks5 and the probe of "B" are in flight.
C39_Witness ==
    /\ Len(calls) = 4
    /\ checks = <<"done", "testing", "testing">>
    /\ semaphore = Workers - 2
    /\ calls[4].is_working
    /\ calls[4].address = "A"
    /\ db_history["A"].total_tests = 4
    /\ db_history["A"].successful_tests = 2
    /\ db_history["A"].reliability_rate = <<2, 4>>
    /\ db_history["A"].first_seen = 1
    /\ db_history["A"].last_seen = 4
    /\ db_history["B"] = NoRecord
    /\ Len(working) = 1
====
